---------------------------- MODULE Spec2Model ----------------------------
(***************************************************************************)
(* EdgeX IPC: the mutex and the semaphore of src/kernel/ipc.c, the         *)
(* block/unblock contract of src/kernel/scheduler.c, the ring-buffer       *)
(* message queue of src/kernel/ipc/message/message.c and the events and    *)
(* event sets of src/kernel/event.c with their timeout sweep.              *)
(*                                                                         *)
(* Scheduling.  The kernel runs on one CPU.  A task is either runnable     *)
(* (TASK_STATE_READY / TASK_STATE_RUNNING, not told apart here) or         *)
(* TASK_STATE_BLOCKED.  Every region between "cli" and "sti" is one        *)
(* atomic step; between two such regions the timer interrupt may hand the  *)
(* CPU to any other runnable task (scheduler.preemption_enabled = true,    *)
(* timer_tick_handler calls schedule() when the time slice is used up).    *)
(* schedule() as written sets in_critical_section in enter_critical() and  *)
(* then tests it, so it returns without switching; the model takes the     *)
(* pre-emptive behaviour the scheduler documents and the IPC code is       *)
(* written against, because the properties below quantify over every       *)
(* interleaving of the IPC operations.                                     *)
(*                                                                         *)
(* kmalloc is taken to succeed (add_waiter always enqueues).               *)
(***************************************************************************)
EXTENDS Integers, Sequences, FiniteSets, TLC

(* ---------------------------- bounds ----------------------------------- *)

\* number of tasks contending for one object
NumTasks == 3

\* lock/increment/unlock rounds each task performs on the mutex
MaxRounds == 2

\* how deep a task nests mutex_lock on the same mutex
MaxDepth == 2

\* semaphore calls each task makes
MaxSemOps == 2

\* largest small initial_value a semaphore is created with
MaxInitial == 1

\* max_messages of the message queue
MaxSize == 2

\* send_message / receive_message calls made in all
MaxQueueCalls == 3

\* task-exit cleanups that run
MaxCleanups == 1

\* largest pid used as header.receiver
NumReceivers == 1

\* event and event-set calls (wait, signal, broadcast, reset) in one run
MaxEventCalls == 4

\* timer ticks in one run
MaxTicks == 2

\* the largest timeout, in milliseconds, passed to a timed wait
MaxTimeoutMs == 2

\* calls followed in a run in which the tasks use more than one kind of
\* object (mutex, semaphore, event)
MaxMixedCalls == 3

\* events offered to the event set
NumEvents == 2

\* event_set_add, event_set_remove, destroy_event_set, create_event_set
\* calls and signals / resets of member events in one run
MaxSetCalls == 4

\* the largest max_events passed to create_event_set
MaxCapacity == 1

\* event-set waits in one run of the membership specification
MaxSetWaits == 2

\* the largest size, in pages, of the shared-memory segment
MaxPages == 2

\* shared-memory calls in one run
MaxShmCalls == 5

\* capacity of the queue the task-exit cleanup is run on
CleanupQueueSize == 4

\* mutex, semaphore, event and event-set calls and timer ticks in a run
\* that ends with a task exit
MaxCallsBeforeExit == 3

\* max_messages of the pool queue, and the calls made on it
PoolSize == 1
MaxPoolCalls == 4

\* queues created in the registry model, their capacity, and the calls made
NumQueues == 2
RegQueueSize == 1
MaxRegCalls == 5

\* segments in the address-range model, and the calls made on them
NumSegments == 2
MaxVmCalls == 4

Tasks == 1..NumTasks

EventIds == 1..NumEvents

\* the identities (addresses) of the queues create_message_queue returns
QueueIds == 1..NumQueues

\* the shared-memory segments of the address-range model
SegIds == 1..NumSegments

\* no mapping of the segment in the task
NoAddr == -1

\* a registry entry with no queue
no_entry == [queues |-> <<>>, recv_queue_idx |-> 0, send_queue_idx |-> 0]

\* max_value set by create_semaphore
INT32_MAX == 2147483647

\* the initial_value arguments of create_semaphore that are explored
InitialValues == (0..MaxInitial) \cup {INT32_MAX - 1, INT32_MAX}

(* ------------------------ scheduler constants -------------------------- *)

\* task_state_t
TASK_STATE_READY == "READY"

TASK_STATE_BLOCKED == "BLOCKED"

(* ------------------------- message constants --------------------------- *)

MESSAGE_PRIORITY_LOW == 0

MESSAGE_PRIORITY_NORMAL == 1

MESSAGE_PRIORITY_HIGH == 2

MESSAGE_PRIORITY_URGENT == 3

Priorities == {MESSAGE_PRIORITY_LOW, MESSAGE_PRIORITY_NORMAL,
               MESSAGE_PRIORITY_HIGH, MESSAGE_PRIORITY_URGENT}

\* flag words are sets of bit masks; MESSAGE_FLAG_BLOCKING is the mask 0
MESSAGE_FLAG_BLOCKING == 0

MESSAGE_FLAG_URGENT == 4

\* (flags & mask) != 0
HasFlag(flags, mask) == mask # 0 /\ mask \in flags

\* the flags arguments send_message is called with
SendFlags == {{}, {MESSAGE_FLAG_URGENT}}

Receivers == 1..NumReceivers

\* event flags and states
EVENT_FLAG_MANUAL_RESET == 1

EVENT_STATE_NONSIGNALED == 0

EVENT_STATE_SIGNALED == 1

\* shared-memory permission bits
SHM_PERM_READ == 1
SHM_PERM_WRITE == 2

\* shared-memory segment flags
SHM_FLAG_CREATE == 1
SHM_FLAG_EXCL == 2
SHM_FLAG_RESIZE == 4

\* entries of the mappings[] array of a segment
MAX_SHM_MAPPINGS == 32

\* capacity of the events[] array of an event set
MAX_EVENTS_PER_SET == 16

\* get_tick_interval_us(): microseconds per timer tick
get_tick_interval_us == 1000

\* timeout_ms arguments; 0 is event_wait / event_set_wait (wait forever)
TimeoutsMs == 0..MaxTimeoutMs

\* what event_timedwait / event_set_timedwait return: 0, or -1 for a timeout
WAIT_OK == 0

WAIT_TIMEOUT == -1

\* ipc_object_type_t, the header.type of a live mutex
IPC_TYPE_MUTEX == 1

\* the header.type of a live event
IPC_TYPE_EVENT == 3

\* the task has not returned from any event wait yet
NO_RESULT == 1

RESULT_OK == "0"

RESULT_EAGAIN == "-EAGAIN"

\* a slot of the kmalloc'ed buffer nothing has been stored in
NoMessage == [message_id |-> 0, sender |-> 0, receiver |-> 0,
              priority |-> 0, flags |-> {}]

VARIABLES
    state,        \* task->state of every task
    pc,           \* where every task is in the operation it is executing
    owner,        \* mutex->owner, 0 when unlocked
    lock_count,   \* mutex->lock_count
    mwait,        \* mutex->wait_queue, head first
    hold,         \* per task: successful lock returns not yet matched by an unlock
    rounds,       \* per task: completed lock/increment/unlock rounds
    shared_counter,
    local_counter,
    tmp,          \* per task: the value read by shared_counter++
    sem,          \* the semaphore: [value, max_value]
    swait,        \* sem->wait_queue, head first
    sops,         \* per task: semaphore calls made so far
    queue,        \* struct message_queue
    next_message_id,
    msgbuf,       \* per task: the message_t the caller passes
    result,       \* per task: result of the call in progress
    qcalls,       \* send_message / receive_message calls started so far
    cleanups,     \* task-exit cleanups run so far
    accepted,     \* history: messages stored by send_message, in arrival order
    received,     \* history: messages copied out by receive_message
    removed,      \* history: messages removed by cleanup_task_messages
    event,        \* struct event: flags, state, waiters (head first)
    event_set,    \* struct event_set holding the event: waiters (head first)
    tick_count,   \* scheduler.tick_count
    ecalls,       \* event and event-set calls started so far
    wait_result,  \* per task: what its last event wait returned
    woken,        \* history, per task: what took it off the wait queue in
                  \* its current wait, whether it was BLOCKED then, and the
                  \* timeout of the waiter entry
    arrivals,     \* history: the tasks on the event's wait queue, in the
                  \* order in which add_event_waiter enqueued them
    event_pool,   \* the events offered to the event set: flags, state,
                  \* header.ref_count
    set_events,   \* struct event_set: header.type live or cleared, events[]
                  \* and event_count
    max_events,   \* history: the capacity create_event_set was called with
    signaled_event, \* per task: the event its last set wait reported
    setcalls,     \* event-set membership calls and member signals so far
    segment,      \* the shared_memory_segment_t registered under the name
    page_table,   \* per task: the physical block installed at the virtual
                  \* address of its mapping by map_pages, 0 when none
    freed,        \* the physical blocks handed to free_pages
    next_phys,    \* the next block alloc_pages returns
    handles,      \* per task: handles returned by create_shared_memory and
                  \* not yet passed to destroy_shared_memory
    shmcalls,     \* shared-memory calls made so far
    pool_queue,   \* message_queue_pool[0] of src/kernel/message.c
    free_slots,   \* the semaphore queue->free_slots points to
    used_slots,   \* the semaphore queue->used_slots points to
    destroy_woken, \* history, per task: destroy_semaphore took it off a
                  \* wait queue during its current call while it was BLOCKED
    poolcalls,    \* calls on the pool queue started so far
    mutex_type,   \* mutex->header.type: IPC_TYPE_MUTEX, 0 once destroyed
    message_queues, \* message_queues[0 .. num_message_queues-1]: the live
                  \* queues, by identity
    task_registry, \* per task: its registry entry: queues[], recv_queue_idx,
                  \* send_queue_idx
    queue_msgs,   \* per queue identity: the messages it holds, head first
    next_queue,   \* the identity the next created queue gets
    regcalls,     \* registry, create, destroy and reply calls so far
    event_type,   \* per pool event: header.type, IPC_TYPE_EVENT or 0 once
                  \* destroy_event has cleared the slot
    real_size,    \* per segment: segment->real_size, in pages
    virtual_addr, \* per segment and task: mappings[i].virtual_addr as a
                  \* page offset from 0x7F0000000000, NoAddr when the task
                  \* has no mapping of the segment
    next_shm_addr, \* the static of map_shared_memory, as a page offset
    vmcalls       \* map, unmap and resize calls so far

vars == <<state, pc, owner, lock_count, mwait, hold, rounds,
          shared_counter, local_counter, tmp, sem, swait, sops,
          queue, next_message_id, msgbuf, result, qcalls, cleanups,
          accepted, received, removed, event, event_set, tick_count,
          ecalls, wait_result, woken, arrivals, event_pool, set_events,
          max_events, signaled_event, setcalls, segment, page_table,
          freed, next_phys, handles, shmcalls, pool_queue, free_slots,
          used_slots, destroy_woken, poolcalls, mutex_type,
          message_queues, task_registry, queue_msgs, next_queue, regcalls,
          event_type, real_size, virtual_addr, next_shm_addr, vmcalls>>

eventVars == <<event, event_set, tick_count, ecalls, wait_result, woken,
               arrivals>>

setVars == <<event_pool, set_events, max_events, signaled_event, setcalls>>

shmVars == <<segment, page_table, freed, next_phys, handles, shmcalls>>

poolVars == <<pool_queue, free_slots, used_slots, destroy_woken, poolcalls>>

\* the variables of the models that follow the shared-memory model
regVars == <<message_queues, task_registry, queue_msgs, next_queue,
             regcalls>>

vmVars == <<real_size, virtual_addr, next_shm_addr, vmcalls>>

extVars == <<poolVars, mutex_type, regVars, event_type, vmVars>>

semVars == <<sem, swait, sops>>

queueVars == <<queue, next_message_id, msgbuf, result, qcalls, cleanups,
               accepted, received, removed>>

mutexVars == <<owner, lock_count, mwait, hold, rounds, shared_counter,
               local_counter, tmp>>

(* ----------------------------- scheduler ------------------------------- *)

\* a task can execute only when it is not blocked
Runnable(t) == state[t] # TASK_STATE_BLOCKED

\* block_task(pid): unconditionally marks the task blocked and switches away
block_task(st, pid) == [st EXCEPT ![pid] = TASK_STATE_BLOCKED]

\* unblock_task(pid): returns without effect unless the task is BLOCKED
unblock_task(st, pid) ==
    IF st[pid] # TASK_STATE_BLOCKED THEN st
    ELSE [st EXCEPT ![pid] = TASK_STATE_READY]

(* ----------------------------- wait queue ------------------------------ *)

\* add_waiter: append at the tail
add_waiter(wait_queue, pid) == Append(wait_queue, pid)

\* wake_waiters(queue, 1): the queue after the head has been removed
wake_one_queue(wait_queue) ==
    IF wait_queue = <<>> THEN wait_queue ELSE Tail(wait_queue)

\* wake_waiters(queue, 1): the task states after unblock_task(head)
wake_one_state(st, wait_queue) ==
    IF wait_queue = <<>> THEN st ELSE unblock_task(st, Head(wait_queue))

\* a remove_waiter that leaves the queue as it is
remove_waiter_Keep(wait_queue, pid) == wait_queue

\* remove_waiter: the queue without the first waiter of pid
RECURSIVE remove_waiter(_, _)
remove_waiter(wait_queue, pid) ==
    IF wait_queue = <<>> THEN wait_queue
    ELSE IF Head(wait_queue) = pid THEN Tail(wait_queue)
    ELSE <<Head(wait_queue)>> \o remove_waiter(Tail(wait_queue), pid)

(* ------------------------------- mutex --------------------------------- *)

\* mutex_lock, the cli..sti region: recursive lock, free lock, or enqueue
MutexLock(t) ==
    /\ Runnable(t)
    /\ \/ pc[t] = "idle" /\ rounds[t] < MaxRounds
       \/ pc[t] = "cs" /\ hold[t] < MaxDepth
    /\ IF owner = t
       THEN /\ lock_count' = lock_count + 1
            /\ hold' = [hold EXCEPT ![t] = @ + 1]
            /\ pc' = [pc EXCEPT ![t] = "cs"]
            /\ UNCHANGED <<owner, mwait>>
       ELSE IF owner = 0
       THEN /\ owner' = t
            /\ lock_count' = 1
            /\ hold' = [hold EXCEPT ![t] = @ + 1]
            /\ pc' = [pc EXCEPT ![t] = "cs"]
            /\ UNCHANGED mwait
       ELSE /\ mwait' = add_waiter(mwait, t)
            /\ pc' = [pc EXCEPT ![t] = "lock_block"]
            /\ UNCHANGED <<owner, lock_count, hold>>
    /\ UNCHANGED <<state, rounds, shared_counter, local_counter, tmp>>
    /\ UNCHANGED <<semVars, queueVars>>
    /\ UNCHANGED eventVars
    /\ UNCHANGED <<setVars, shmVars, extVars>>

\* mutex_lock, after sti: block_task(current_pid)
MutexLockBlock(t) ==
    /\ Runnable(t)
    /\ pc[t] = "lock_block"
    /\ state' = block_task(state, t)
    /\ pc' = [pc EXCEPT ![t] = "lock_resume"]
    /\ UNCHANGED mutexVars
    /\ UNCHANGED <<semVars, queueVars>>
    /\ UNCHANGED eventVars
    /\ UNCHANGED <<setVars, shmVars, extVars>>

\* mutex_lock, resumed after block_task: mutex->owner = current_pid
MutexLockSetOwner(t) ==
    /\ Runnable(t)
    /\ pc[t] = "lock_resume"
    /\ owner' = t
    /\ pc' = [pc EXCEPT ![t] = "lock_count"]
    /\ UNCHANGED <<state, lock_count, mwait, hold, rounds, shared_counter,
                   local_counter, tmp>>
    /\ UNCHANGED <<semVars, queueVars>>
    /\ UNCHANGED eventVars
    /\ UNCHANGED <<setVars, shmVars, extVars>>

\* mutex_lock, resumed: mutex->lock_count = 1; return 0
MutexLockSetCount(t) ==
    /\ Runnable(t)
    /\ pc[t] = "lock_count"
    /\ lock_count' = 1
    /\ hold' = [hold EXCEPT ![t] = @ + 1]
    /\ pc' = [pc EXCEPT ![t] = "cs"]
    /\ UNCHANGED <<state, owner, mwait, rounds, shared_counter,
                   local_counter, tmp>>
    /\ UNCHANGED <<semVars, queueVars>>
    /\ UNCHANGED eventVars
    /\ UNCHANGED <<setVars, shmVars, extVars>>

\* mutex_trylock: as mutex_lock without the blocking branch
MutexTryLock(t) ==
    /\ Runnable(t)
    /\ \/ pc[t] = "idle" /\ rounds[t] < MaxRounds
       \/ pc[t] = "cs" /\ hold[t] < MaxDepth
    /\ IF owner = t
       THEN /\ lock_count' = lock_count + 1
            /\ hold' = [hold EXCEPT ![t] = @ + 1]
            /\ pc' = [pc EXCEPT ![t] = "cs"]
            /\ UNCHANGED owner
       ELSE IF owner = 0
       THEN /\ owner' = t
            /\ lock_count' = 1
            /\ hold' = [hold EXCEPT ![t] = @ + 1]
            /\ pc' = [pc EXCEPT ![t] = "cs"]
       ELSE UNCHANGED <<owner, lock_count, hold, pc>>
    /\ UNCHANGED <<state, mwait, rounds, shared_counter, local_counter, tmp>>
    /\ UNCHANGED <<semVars, queueVars>>
    /\ UNCHANGED eventVars
    /\ UNCHANGED <<setVars, shmVars, extVars>>

\* the critical section of test_mutex_contention_task: shared_counter++ (load)
CounterRead(t) ==
    /\ Runnable(t)
    /\ pc[t] = "cs"
    /\ tmp' = [tmp EXCEPT ![t] = shared_counter]
    /\ pc' = [pc EXCEPT ![t] = "cs_write"]
    /\ UNCHANGED <<state, owner, lock_count, mwait, hold, rounds,
                   shared_counter, local_counter>>
    /\ UNCHANGED <<semVars, queueVars>>
    /\ UNCHANGED eventVars
    /\ UNCHANGED <<setVars, shmVars, extVars>>

\* shared_counter++ (store); local_counter++
CounterWrite(t) ==
    /\ Runnable(t)
    /\ pc[t] = "cs_write"
    /\ shared_counter' = tmp[t] + 1
    /\ local_counter' = [local_counter EXCEPT ![t] = @ + 1]
    /\ pc' = [pc EXCEPT ![t] = "cs_exit"]
    /\ UNCHANGED <<state, owner, lock_count, mwait, hold, rounds, tmp>>
    /\ UNCHANGED <<semVars, queueVars>>
    /\ UNCHANGED eventVars
    /\ UNCHANGED <<setVars, shmVars, extVars>>

\* mutex_unlock: -1 unless the caller owns it; at count 0 release and wake one
MutexUnlock(t) ==
    /\ Runnable(t)
    /\ pc[t] = "cs_exit"
    /\ IF owner # t
       THEN UNCHANGED <<owner, lock_count, mwait, state>>
       ELSE /\ lock_count' = lock_count - 1
            /\ IF lock_count - 1 = 0
               THEN /\ owner' = 0
                    /\ mwait' = wake_one_queue(mwait)
                    /\ state' = wake_one_state(state, mwait)
               ELSE UNCHANGED <<owner, mwait, state>>
    /\ hold' = [hold EXCEPT ![t] = @ - 1]
    /\ IF hold[t] - 1 = 0
       THEN /\ pc' = [pc EXCEPT ![t] = "idle"]
            /\ rounds' = [rounds EXCEPT ![t] = @ + 1]
       ELSE UNCHANGED <<pc, rounds>>
    /\ UNCHANGED <<shared_counter, local_counter, tmp>>
    /\ UNCHANGED <<semVars, queueVars>>
    /\ UNCHANGED eventVars
    /\ UNCHANGED <<setVars, shmVars, extVars>>

(* ----------------------------- semaphore ------------------------------- *)

\* create_semaphore: value = initial_value, max_value = 0x7FFFFFFF
create_semaphore(initial_value) ==
    [value |-> initial_value, max_value |-> INT32_MAX]

\* a try-wait that still succeeds at value 0
semaphore_trywait_ok_OffByOne(s) == s.value >= 0

\* semaphore_trywait succeeds exactly when value > 0
semaphore_trywait_ok(s) == s.value > 0

\* the decrement semaphore_wait / semaphore_trywait make on success
semaphore_take(s) == [s EXCEPT !.value = @ - 1]

\* semaphore_post on a semaphore nobody waits on: -1 at max_value, else ++
semaphore_post_value(s) ==
    IF s.value = s.max_value THEN s ELSE [s EXCEPT !.value = @ + 1]

\* semaphore_wait, the cli..sti region: take a unit, or enqueue
SemWait(t) ==
    /\ Runnable(t)
    /\ pc[t] = "idle"
    /\ sops[t] < MaxSemOps
    /\ sops' = [sops EXCEPT ![t] = @ + 1]
    /\ IF sem.value > 0
       THEN /\ sem' = semaphore_take(sem)
            /\ UNCHANGED <<swait, pc>>
       ELSE /\ swait' = add_waiter(swait, t)
            /\ pc' = [pc EXCEPT ![t] = "wait_block"]
            /\ UNCHANGED sem
    /\ UNCHANGED <<state, mutexVars, queueVars>>
    /\ UNCHANGED eventVars
    /\ UNCHANGED <<setVars, shmVars, extVars>>

\* semaphore_wait, after sti: block_task(current_pid)
SemWaitBlock(t) ==
    /\ Runnable(t)
    /\ pc[t] = "wait_block"
    /\ state' = block_task(state, t)
    /\ pc' = [pc EXCEPT ![t] = "wait_resume"]
    /\ UNCHANGED <<mutexVars, semVars, queueVars, setVars, shmVars, extVars>>
    /\ UNCHANGED eventVars
    /\ UNCHANGED <<setVars, shmVars, extVars>>

\* semaphore_wait, resumed after block_task: return 0
SemWaitReturn(t) ==
    /\ Runnable(t)
    /\ pc[t] = "wait_resume"
    /\ pc' = [pc EXCEPT ![t] = "idle"]
    /\ UNCHANGED <<state, mutexVars, semVars, queueVars>>
    /\ UNCHANGED eventVars
    /\ UNCHANGED <<setVars, shmVars, extVars>>

\* semaphore_trywait: take a unit, or return -1 without effect
SemTryWait(t) ==
    /\ Runnable(t)
    /\ pc[t] = "idle"
    /\ sops[t] < MaxSemOps
    /\ sops' = [sops EXCEPT ![t] = @ + 1]
    /\ IF semaphore_trywait_ok(sem)
       THEN sem' = semaphore_take(sem)
       ELSE UNCHANGED sem
    /\ UNCHANGED <<state, pc, swait, mutexVars, queueVars>>
    /\ UNCHANGED eventVars
    /\ UNCHANGED <<setVars, shmVars, extVars>>

\* semaphore_post that increments even when it wakes a waiter
SemPost_AlwaysIncrement(t) ==
    /\ Runnable(t)
    /\ pc[t] = "idle"
    /\ sops[t] < MaxSemOps
    /\ sops' = [sops EXCEPT ![t] = @ + 1]
    /\ IF sem.value = sem.max_value
       THEN UNCHANGED <<sem, swait, state>>
       ELSE /\ swait' = wake_one_queue(swait)
            /\ state' = wake_one_state(state, swait)
            /\ sem' = [sem EXCEPT !.value = @ + 1]
    /\ UNCHANGED <<pc, mutexVars, queueVars>>
    /\ UNCHANGED eventVars
    /\ UNCHANGED <<setVars, shmVars, extVars>>

\* semaphore_post: -1 at max_value; else wake the head waiter or increment
SemPost(t) ==
    /\ Runnable(t)
    /\ pc[t] = "idle"
    /\ sops[t] < MaxSemOps
    /\ sops' = [sops EXCEPT ![t] = @ + 1]
    /\ IF sem.value = sem.max_value
       THEN UNCHANGED <<sem, swait, state>>
       ELSE IF Len(swait) > 0
       THEN /\ swait' = wake_one_queue(swait)
            /\ state' = wake_one_state(state, swait)
            /\ UNCHANGED sem
       ELSE /\ sem' = semaphore_post_value(sem)
            /\ UNCHANGED <<swait, state>>
    /\ UNCHANGED <<pc, mutexVars, queueVars>>
    /\ UNCHANGED eventVars
    /\ UNCHANGED <<setVars, shmVars, extVars>>

(* --------------------------- message queue ----------------------------- *)
(* queue->lock, queue->msg_available and queue->space_available are used    *)
(* through mutex_init / semaphore_init / semaphore_destroy, which the       *)
(* sources do not define.  The lock is taken to exclude: a region between   *)
(* mutex_lock(&queue->lock) and mutex_unlock(&queue->lock) is one step.     *)
(* The two semaphores count as the semaphore above does.  The per-priority  *)
(* counters and the statistics are written but never read by send, receive  *)
(* or cleanup and are left out.                                             *)

\* semaphore_init(&sem, value, max)
semaphore_init(value, max) == [value |-> value, max_value |-> max]

\* create_message_queue(name, max_messages)
create_message_queue(max_messages) ==
    [messages |-> [i \in 0..(max_messages - 1) |-> NoMessage],
     max_size |-> max_messages,
     current_size |-> 0,
     head |-> 0,
     tail |-> 0,
     high_priority_count |-> 0,
     urgent_priority_count |-> 0,
     msg_available |-> semaphore_init(0, max_messages),
     space_available |-> semaphore_init(max_messages, max_messages)]

\* the index before pos in the circular buffer
PrevIndex(q, pos) == IF pos = 0 THEN q.max_size - 1 ELSE pos - 1

\* the messages of the queue, head first
Contents(q) ==
    [i \in 1..q.current_size |-> q.messages[(q.head + i - 1) % q.max_size]]

\* insert_message_by_priority: the backwards scan from the tail; the
\* position it stops at and the number of messages it passed
RECURSIVE ScanBack(_, _, _, _)
ScanBack(q, priority, pos, count) ==
    IF count < q.current_size
    THEN LET idx == PrevIndex(q, pos)
         IN  IF q.messages[idx].priority >= priority
             THEN <<pos, count>>
             ELSE ScanBack(q, priority, idx, count + 1)
    ELSE <<pos, count>>

\* insert_message_by_priority: move the messages from insert_pos to tail-1
\* one slot forward
RECURSIVE ShiftForward(_, _, _, _)
ShiftForward(q, messages, curr, insert_pos) ==
    IF curr = insert_pos
    THEN messages
    ELSE LET prev == PrevIndex(q, curr)
         IN  ShiftForward(q, [messages EXCEPT ![curr] = messages[prev]],
                          prev, insert_pos)

\* insert_message_by_priority whose shift loop is left out
insert_message_by_priority_NoShift(q, message) ==
    IF q.current_size >= q.max_size
    THEN [result |-> RESULT_EAGAIN, queue |-> q]
    ELSE LET scan == ScanBack(q, message.priority, q.tail, 0)
             insert_pos ==
                 IF /\ message.priority \in {MESSAGE_PRIORITY_HIGH,
                                             MESSAGE_PRIORITY_URGENT}
                    /\ scan[2] > 0
                 THEN scan[1]
                 ELSE q.tail
         IN  [result |-> RESULT_OK,
              queue |-> [q EXCEPT
                           !.messages = [q.messages EXCEPT
                                           ![insert_pos] = message],
                           !.tail = (q.tail + 1) % q.max_size,
                           !.current_size = @ + 1,
                           !.high_priority_count =
                               IF message.priority = MESSAGE_PRIORITY_HIGH
                               THEN @ + 1 ELSE @,
                           !.urgent_priority_count =
                               IF message.priority = MESSAGE_PRIORITY_URGENT
                               THEN @ + 1 ELSE @]]

\* insert_message_by_priority
insert_message_by_priority(q, message) ==
    IF q.current_size >= q.max_size
    THEN [result |-> RESULT_EAGAIN, queue |-> q]
    ELSE LET scan == ScanBack(q, message.priority, q.tail, 0)
             insert_pos ==
                 IF /\ message.priority \in {MESSAGE_PRIORITY_HIGH,
                                             MESSAGE_PRIORITY_URGENT}
                    /\ scan[2] > 0
                 THEN scan[1]
                 ELSE q.tail
             shifted ==
                 IF insert_pos # q.tail
                 THEN ShiftForward(q, q.messages, q.tail, insert_pos)
                 ELSE q.messages
         IN  [result |-> RESULT_OK,
              queue |-> [q EXCEPT
                           !.messages = [shifted EXCEPT
                                           ![insert_pos] = message],
                           !.tail = (q.tail + 1) % q.max_size,
                           !.current_size = @ + 1,
                           !.high_priority_count =
                               IF message.priority = MESSAGE_PRIORITY_HIGH
                               THEN @ + 1 ELSE @,
                           !.urgent_priority_count =
                               IF message.priority = MESSAGE_PRIORITY_URGENT
                               THEN @ + 1 ELSE @]]

\* send_message, is_urgent branch: store the message in front of the head
insert_urgent(q, message) ==
    LET prev_head == IF q.head > 0 THEN q.head - 1 ELSE q.max_size - 1
    IN  IF q.current_size < q.max_size
        THEN [result |-> RESULT_OK,
              queue |-> [q EXCEPT
                           !.head = prev_head,
                           !.messages = [q.messages EXCEPT
                                           ![prev_head] = message],
                           !.current_size = @ + 1,
                           !.urgent_priority_count = @ + 1]]
        ELSE [result |-> RESULT_EAGAIN, queue |-> q]

\* send_message up to the slot reservation: fill in sender and message_id,
\* then semaphore_trywait(&queue->space_available); -EAGAIN when it fails.
\* is_blocking is (flags & MESSAGE_FLAG_BLOCKING) != 0, false for all flags.
SendReserve(t) ==
    /\ Runnable(t)
    /\ pc[t] = "idle"
    /\ qcalls < MaxQueueCalls
    /\ qcalls' = qcalls + 1
    /\ next_message_id' = next_message_id + 1
    /\ IF semaphore_trywait_ok(queue.space_available)
       THEN /\ \E priority \in Priorities, flags \in SendFlags,
                  receiver \in Receivers :
                  /\ ~HasFlag(flags, MESSAGE_FLAG_BLOCKING)
                  /\ msgbuf' = [msgbuf EXCEPT ![t] =
                                  [message_id |-> next_message_id,
                                   sender |-> t, receiver |-> receiver,
                                   priority |-> priority, flags |-> flags]]
            /\ queue' = [queue EXCEPT
                           !.space_available = semaphore_take(@)]
            /\ pc' = [pc EXCEPT ![t] = "send_insert"]
            /\ UNCHANGED result
       ELSE /\ result' = [result EXCEPT ![t] = RESULT_EAGAIN]
            /\ UNCHANGED <<queue, pc, msgbuf>>
    /\ UNCHANGED <<state, mutexVars, semVars, cleanups, accepted, received,
                   removed>>
    /\ UNCHANGED eventVars
    /\ UNCHANGED <<setVars, shmVars, extVars>>

\* send_message under queue->lock: urgent in front of the head, otherwise
\* insert_message_by_priority
SendInsert(t) ==
    /\ Runnable(t)
    /\ pc[t] = "send_insert"
    /\ LET r == IF HasFlag(msgbuf[t].flags, MESSAGE_FLAG_URGENT)
                THEN insert_urgent(queue, msgbuf[t])
                ELSE insert_message_by_priority(queue, msgbuf[t])
       IN  /\ queue' = r.queue
           /\ result' = [result EXCEPT ![t] = r.result]
           /\ accepted' = IF r.result = RESULT_OK
                          THEN Append(accepted, msgbuf[t])
                          ELSE accepted
    /\ pc' = [pc EXCEPT ![t] = "send_post"]
    /\ UNCHANGED <<state, mutexVars, semVars, next_message_id, msgbuf, qcalls,
                   cleanups, received, removed>>
    /\ UNCHANGED eventVars
    /\ UNCHANGED <<setVars, shmVars, extVars>>

\* send_message after the unlock: post msg_available, or give the slot back
SendPost(t) ==
    /\ Runnable(t)
    /\ pc[t] = "send_post"
    /\ queue' = IF result[t] = RESULT_OK
                THEN [queue EXCEPT
                        !.msg_available = semaphore_post_value(@)]
                ELSE [queue EXCEPT
                        !.space_available = semaphore_post_value(@)]
    /\ pc' = [pc EXCEPT ![t] = "idle"]
    /\ msgbuf' = [msgbuf EXCEPT ![t] = NoMessage]
    /\ UNCHANGED <<state, mutexVars, semVars, next_message_id, result, qcalls,
                   cleanups, accepted, received, removed>>
    /\ UNCHANGED eventVars
    /\ UNCHANGED <<setVars, shmVars, extVars>>

\* receive_message up to semaphore_trywait(&queue->msg_available)
ReceiveReserve(t) ==
    /\ Runnable(t)
    /\ pc[t] = "idle"
    /\ qcalls < MaxQueueCalls
    /\ qcalls' = qcalls + 1
    /\ IF semaphore_trywait_ok(queue.msg_available)
       THEN /\ queue' = [queue EXCEPT !.msg_available = semaphore_take(@)]
            /\ pc' = [pc EXCEPT ![t] = "receive_pop"]
            /\ UNCHANGED result
       ELSE /\ result' = [result EXCEPT ![t] = RESULT_EAGAIN]
            /\ UNCHANGED <<queue, pc>>
    /\ UNCHANGED <<state, mutexVars, semVars, next_message_id, msgbuf,
                   cleanups, accepted, received, removed>>
    /\ UNCHANGED eventVars
    /\ UNCHANGED <<setVars, shmVars, extVars>>

\* receive_message under queue->lock: copy out the head message
ReceivePop(t) ==
    /\ Runnable(t)
    /\ pc[t] = "receive_pop"
    /\ IF queue.current_size > 0
       THEN /\ msgbuf' = [msgbuf EXCEPT ![t] = queue.messages[queue.head]]
            /\ received' = Append(received, queue.messages[queue.head])
            /\ queue' = [queue EXCEPT
                           !.head = (queue.head + 1) % queue.max_size,
                           !.current_size = @ - 1,
                           !.urgent_priority_count =
                               IF queue.messages[queue.head].priority
                                     = MESSAGE_PRIORITY_URGENT
                               THEN @ - 1 ELSE @,
                           !.high_priority_count =
                               IF queue.messages[queue.head].priority
                                     = MESSAGE_PRIORITY_HIGH
                               THEN @ - 1 ELSE @]
            /\ result' = [result EXCEPT ![t] = RESULT_OK]
       ELSE /\ result' = [result EXCEPT ![t] = RESULT_EAGAIN]
            /\ UNCHANGED <<msgbuf, received, queue>>
    /\ pc' = [pc EXCEPT ![t] = "receive_post"]
    /\ UNCHANGED <<state, mutexVars, semVars, next_message_id, qcalls,
                   cleanups, accepted, removed>>
    /\ UNCHANGED eventVars
    /\ UNCHANGED <<setVars, shmVars, extVars>>

\* receive_message after the unlock: post space_available, or give the
\* signal back
ReceivePost(t) ==
    /\ Runnable(t)
    /\ pc[t] = "receive_post"
    /\ queue' = IF result[t] = RESULT_OK
                THEN [queue EXCEPT
                        !.space_available = semaphore_post_value(@)]
                ELSE [queue EXCEPT
                        !.msg_available = semaphore_post_value(@)]
    /\ pc' = [pc EXCEPT ![t] = "idle"]
    /\ msgbuf' = [msgbuf EXCEPT ![t] = NoMessage]
    /\ UNCHANGED <<state, mutexVars, semVars, next_message_id, result, qcalls,
                   cleanups, accepted, received, removed>>
    /\ UNCHANGED eventVars
    /\ UNCHANGED <<setVars, shmVars, extVars>>

\* cleanup_task_messages: a removal that moves no message
ShiftBack_None(q, messages, move_pos, next_move_pos, k) == messages

\* cleanup_task_messages: the inner loop that moves the messages behind the
\* removed one a slot back
RECURSIVE ShiftBack(_, _, _, _, _)
ShiftBack(q, messages, move_pos, next_move_pos, k) ==
    IF k < q.current_size
    THEN ShiftBack(q, [messages EXCEPT ![move_pos] = messages[next_move_pos]],
                   next_move_pos, (next_move_pos + 1) % q.max_size, k + 1)
    ELSE messages

\* cleanup_task_messages: the loop over the messages of one queue; the
\* queue it leaves and the messages it removed. The priority counters
\* are decremented after the shift through msg, a pointer to slot pos,
\* so the priority read is that of the message now in the slot. The
\* counters are uint32_t, kept as their signed 32-bit pattern: -1 stands
\* for 0xFFFFFFFF.
RECURSIVE CleanupLoop(_, _, _, _, _)
CleanupLoop(q, pid, pos, j, gone) ==
    IF j < q.current_size
    THEN LET msg == q.messages[pos]
             next_pos == (pos + 1) % q.max_size
             shifted == IF j < q.current_size - 1
                        THEN ShiftBack(q, q.messages, pos, next_pos, j + 1)
                        ELSE q.messages
         IN  IF msg.sender = pid \/ msg.receiver = pid
             THEN CleanupLoop(
                      [q EXCEPT
                         !.messages = shifted,
                         !.high_priority_count =
                             IF shifted[pos].priority = MESSAGE_PRIORITY_HIGH
                             THEN @ - 1 ELSE @,
                         !.urgent_priority_count =
                             IF shifted[pos].priority = MESSAGE_PRIORITY_URGENT
                             THEN @ - 1 ELSE @,
                         !.tail = IF q.tail > 0 THEN q.tail - 1
                                  ELSE q.max_size - 1,
                         !.current_size = @ - 1],
                      pid, pos, j, Append(gone, msg))
             ELSE CleanupLoop(q, pid, next_pos, j + 1, gone)
    ELSE [queue |-> q, gone |-> gone]

\* cleanup_task_messages(pid), run by the exit path of task pid: remove the
\* messages from or to pid and, when any was removed, re-create both
\* semaphores from current_size
Cleanup(pid) ==
    /\ pc[pid] = "idle"
    /\ cleanups < MaxCleanups
    /\ cleanups' = cleanups + 1
    /\ LET r == CleanupLoop(queue, pid, queue.head, 0, <<>>)
       IN  /\ queue' =
                 IF Len(r.gone) > 0
                 THEN [r.queue EXCEPT
                         !.msg_available =
                             semaphore_init(r.queue.current_size,
                                            r.queue.max_size),
                         !.space_available =
                             semaphore_init(r.queue.max_size
                                              - r.queue.current_size,
                                            r.queue.max_size)]
                 ELSE r.queue
           /\ removed' = removed \o r.gone
    /\ pc' = [pc EXCEPT ![pid] = "exited"]
    /\ UNCHANGED <<state, mutexVars, semVars, next_message_id, msgbuf, result,
                   qcalls, accepted, received>>
    /\ UNCHANGED eventVars
    /\ UNCHANGED <<setVars, shmVars, extVars>>

(* ------------------------------- events -------------------------------- *)

\* Every event operation works between mutex_lock(event->mutex) and
\* mutex_unlock(event->mutex).  That mutex is the one modelled above; here
\* each locked region is one step, so the event code is examined on the
\* assumption that its mutex excludes.  What lies between two locked regions
\* of one call (block_task after the unlock) is a step of its own.

\* create_event: auto-reset, non-signaled, no waiters
create_event ==
    [flags |-> {}, state |-> EVENT_STATE_NONSIGNALED, waiters |-> <<>>,
     waiter_count |-> 0]

\* init_event_system: the kernel event is made manual-reset
kernel_event ==
    [create_event EXCEPT !.flags = @ \cup {EVENT_FLAG_MANUAL_RESET}]

\* create_event_set: no waiters; the set holds the one event
create_event_set == [waiters |-> <<>>, waiter_count |-> 0]

\* event_timedwait: milliseconds to ticks, at least one tick when non-zero
timeout_ticks(timeout_ms) ==
    IF timeout_ms > 0
    THEN LET ticks == (timeout_ms * 1000) \div get_tick_interval_us
         IN  IF ticks = 0 THEN 1 ELSE ticks
    ELSE 0

\* the pids on a waiter list, head first
WaiterPids(waiters) == [i \in 1..Len(waiters) |-> waiters[i].pid]

\* add_event_waiter: a new waiter stamped with the current tick, linked in
\* at the head of the list
add_event_waiter(ev, pid, timeout, now) ==
    [ev EXCEPT !.waiters = <<[pid |-> pid, wait_start_time |-> now,
                              timeout |-> timeout]>> \o @,
               !.waiter_count = @ + 1]

\* add_event_set_waiter: the same, on the event set's list
add_event_set_waiter(es, pid, timeout, now) ==
    [es EXCEPT !.waiters = <<[pid |-> pid, wait_start_time |-> now,
                              timeout |-> timeout]>> \o @,
               !.waiter_count = @ + 1]

\* the list without its first entry for pid
RECURSIVE RemoveFirst(_, _)
RemoveFirst(waiters, pid) ==
    IF waiters = <<>> THEN waiters
    ELSE IF Head(waiters).pid = pid THEN Tail(waiters)
    ELSE <<Head(waiters)>> \o RemoveFirst(Tail(waiters), pid)

\* remove_event_waiter: unlink the first entry for pid, if there is one
remove_event_waiter(ev, pid) ==
    IF pid \in {ev.waiters[i].pid : i \in 1..Len(ev.waiters)}
    THEN [ev EXCEPT !.waiters = RemoveFirst(@, pid), !.waiter_count = @ - 1]
    ELSE ev

\* remove_event_set_waiter: the same, on the event set's list
remove_event_set_waiter(es, pid) ==
    IF pid \in {es.waiters[i].pid : i \in 1..Len(es.waiters)}
    THEN [es EXCEPT !.waiters = RemoveFirst(@, pid), !.waiter_count = @ - 1]
    ELSE es

\* wake_event_waiters(event, count): how many entries the loop takes from
\* the head of the list; count 0 takes them all
WokenCount(ev, count) ==
    IF count = 0 \/ Len(ev.waiters) < count THEN Len(ev.waiters) ELSE count

\* wake_event_waiters(event, count): the pids handed to unblock_task
WokenPids(ev, count) ==
    {ev.waiters[i].pid : i \in 1..WokenCount(ev, count)}

\* a wake that leaves the woken entries on the list
wake_event_waiters_KeepList(ev, count) == ev

\* wake_event_waiters(event, count): the event it leaves
wake_event_waiters(ev, count) ==
    [ev EXCEPT !.waiters = SubSeq(@, WokenCount(ev, count) + 1, Len(@)),
               !.waiter_count = @ - WokenCount(ev, count)]

\* unblock_task on every pid of a set
unblock_tasks(st, pids) ==
    [u \in Tasks |-> IF u \in pids THEN unblock_task(st, u)[u] ELSE st[u]]

\* check_event_timeouts: the test applied to one waiter
Expired(w, current_tick) ==
    w.timeout > 0 /\ (current_tick - w.wait_start_time) >= w.timeout

\* check_event_timeouts: the pids of one list handed to unblock_task
ExpiredPids(waiters, current_tick) ==
    {waiters[i].pid : i \in {k \in 1..Len(waiters) :
                                Expired(waiters[k], current_tick)}}

\* check_event_timeouts: one event or event set after its expired waiters
\* have been unlinked
check_event_timeouts(obj, current_tick) ==
    LET kept == SelectSeq(obj.waiters,
                          LAMBDA w : ~Expired(w, current_tick))
    IN  [obj EXCEPT !.waiters = kept,
                    !.waiter_count = @ - (Len(obj.waiters) - Len(kept))]

\* history of a task that is on no wait queue
NotWoken == [by |-> "none", blocked |-> FALSE, timeout |-> 0]

\* history: the entries of waiters for the tasks in pids leave their wait
\* queue for the given cause
NoteWoken(waiters, pids, cause) ==
    /\ woken' = [u \in Tasks |->
                    IF u \in pids
                    THEN LET w == waiters[CHOOSE i \in 1..Len(waiters) :
                                             waiters[i].pid = u]
                         IN  [by |-> cause,
                              blocked |-> state[u] = TASK_STATE_BLOCKED,
                              timeout |-> w.timeout]
                    ELSE woken[u]]
    /\ arrivals' = SelectSeq(arrivals, LAMBDA u : u \notin pids)

IsManualReset(ev) == HasFlag(ev.flags, EVENT_FLAG_MANUAL_RESET)

\* a wait that leaves the signaled state alone
take_signal_Keep(ev) == ev

\* a wait that found the event signaled: an auto-reset event is reset
take_signal(ev) ==
    IF ~IsManualReset(ev)
    THEN [ev EXCEPT !.state = EVENT_STATE_NONSIGNALED]
    ELSE ev

\* event_timedwait(event, timeout_ms) up to the first mutex_unlock;
\* event_wait is the call with timeout_ms = 0
EventTimedWait(t) ==
    /\ Runnable(t)
    /\ pc[t] = "idle"
    /\ ecalls < MaxEventCalls
    /\ ecalls' = ecalls + 1
    /\ woken' = [woken EXCEPT ![t] = NotWoken]
    /\ IF event.state = EVENT_STATE_SIGNALED
       THEN /\ event' = take_signal(event)
            /\ wait_result' = [wait_result EXCEPT ![t] = WAIT_OK]
            /\ UNCHANGED <<pc, arrivals>>
       ELSE /\ \E timeout_ms \in TimeoutsMs :
                  event' = add_event_waiter(event, t,
                                            timeout_ticks(timeout_ms),
                                            tick_count)
            /\ arrivals' = Append(arrivals, t)
            /\ pc' = [pc EXCEPT ![t] = "event_block"]
            /\ UNCHANGED wait_result
    /\ UNCHANGED <<state, event_set, tick_count>>
    /\ UNCHANGED <<mutexVars, semVars, queueVars, setVars, shmVars, extVars>>

\* event_timedwait after the unlock: block_task(current_pid)
EventWaitBlock(t) ==
    /\ Runnable(t)
    /\ pc[t] = "event_block"
    /\ state' = block_task(state, t)
    /\ pc' = [pc EXCEPT ![t] = "event_resume"]
    /\ UNCHANGED eventVars
    /\ UNCHANGED <<mutexVars, semVars, queueVars, setVars, shmVars, extVars>>

\* event_timedwait, resumed after block_task: -1 and remove_event_waiter
\* unless the event is signaled now; an auto-reset event is cleared
EventWaitResume(t) ==
    /\ Runnable(t)
    /\ pc[t] = "event_resume"
    /\ IF event.state # EVENT_STATE_SIGNALED
       THEN /\ event' = remove_event_waiter(event, t)
            /\ arrivals' = SelectSeq(arrivals, LAMBDA u : u # t)
            /\ wait_result' = [wait_result EXCEPT ![t] = WAIT_TIMEOUT]
       ELSE /\ event' = take_signal(event)
            /\ wait_result' = [wait_result EXCEPT ![t] = WAIT_OK]
            /\ UNCHANGED arrivals
    /\ pc' = [pc EXCEPT ![t] = "idle"]
    /\ UNCHANGED <<state, event_set, tick_count, ecalls, woken>>
    /\ UNCHANGED <<mutexVars, semVars, queueVars, setVars, shmVars, extVars>>

\* event_signal: auto-reset wakes one waiter and clears the state when
\* waiter_count > 0; manual-reset wakes all waiters and stays signaled
EventSignal(t) ==
    /\ Runnable(t)
    /\ pc[t] = "idle"
    /\ ecalls < MaxEventCalls
    /\ ecalls' = ecalls + 1
    /\ LET signaled == [event EXCEPT !.state = EVENT_STATE_SIGNALED]
       IN  IF ~IsManualReset(event)
           THEN IF event.waiter_count > 0
                THEN /\ event' = [wake_event_waiters(signaled, 1) EXCEPT
                                    !.state = EVENT_STATE_NONSIGNALED]
                     /\ state' = unblock_tasks(state, WokenPids(event, 1))
                     /\ NoteWoken(event.waiters, WokenPids(event, 1), "signal")
                ELSE /\ event' = signaled
                     /\ UNCHANGED <<state, woken, arrivals>>
           ELSE /\ event' = wake_event_waiters(signaled, 0)
                /\ state' = unblock_tasks(state, WokenPids(event, 0))
                /\ NoteWoken(event.waiters, WokenPids(event, 0), "signal")
    /\ UNCHANGED <<pc, event_set, tick_count, wait_result>>
    /\ UNCHANGED <<mutexVars, semVars, queueVars, setVars, shmVars, extVars>>

\* event_broadcast: mark signaled and wake every waiter
EventBroadcast(t) ==
    /\ Runnable(t)
    /\ pc[t] = "idle"
    /\ ecalls < MaxEventCalls
    /\ ecalls' = ecalls + 1
    /\ event' = wake_event_waiters(
                    [event EXCEPT !.state = EVENT_STATE_SIGNALED], 0)
    /\ state' = unblock_tasks(state, WokenPids(event, 0))
    /\ NoteWoken(event.waiters, WokenPids(event, 0), "broadcast")
    /\ UNCHANGED <<pc, event_set, tick_count, wait_result>>
    /\ UNCHANGED <<mutexVars, semVars, queueVars, setVars, shmVars, extVars>>

\* event_reset: back to non-signaled
EventReset(t) ==
    /\ Runnable(t)
    /\ pc[t] = "idle"
    /\ ecalls < MaxEventCalls
    /\ ecalls' = ecalls + 1
    /\ event' = [event EXCEPT !.state = EVENT_STATE_NONSIGNALED]
    /\ UNCHANGED <<state, pc, event_set, tick_count, wait_result, woken,
                   arrivals>>
    /\ UNCHANGED <<mutexVars, semVars, queueVars, setVars, shmVars, extVars>>

\* event_set_timedwait up to the unlock of the set: take the event when it
\* is signaled, otherwise enqueue on the set
EventSetTimedWait(t) ==
    /\ Runnable(t)
    /\ pc[t] = "idle"
    /\ ecalls < MaxEventCalls
    /\ ecalls' = ecalls + 1
    /\ woken' = [woken EXCEPT ![t] = NotWoken]
    /\ IF event.state = EVENT_STATE_SIGNALED
       THEN /\ event' = take_signal(event)
            /\ wait_result' = [wait_result EXCEPT ![t] = WAIT_OK]
            /\ UNCHANGED <<pc, event_set>>
       ELSE /\ \E timeout_ms \in TimeoutsMs :
                  event_set' = add_event_set_waiter(event_set, t,
                                                    timeout_ticks(timeout_ms),
                                                    tick_count)
            /\ pc' = [pc EXCEPT ![t] = "set_block"]
            /\ UNCHANGED <<event, wait_result>>
    /\ UNCHANGED <<state, tick_count, arrivals>>
    /\ UNCHANGED <<mutexVars, semVars, queueVars, setVars, shmVars, extVars>>

\* event_set_timedwait after the unlock: block_task(current_pid)
EventSetWaitBlock(t) ==
    /\ Runnable(t)
    /\ pc[t] = "set_block"
    /\ state' = block_task(state, t)
    /\ pc' = [pc EXCEPT ![t] = "set_resume"]
    /\ UNCHANGED eventVars
    /\ UNCHANGED <<mutexVars, semVars, queueVars, setVars, shmVars, extVars>>

\* event_set_timedwait, resumed: 0 when the event is signaled now (an
\* auto-reset event is cleared), -1 otherwise; remove_event_set_waiter
EventSetWaitResume(t) ==
    /\ Runnable(t)
    /\ pc[t] = "set_resume"
    /\ IF event.state = EVENT_STATE_SIGNALED
       THEN /\ event' = take_signal(event)
            /\ wait_result' = [wait_result EXCEPT ![t] = WAIT_OK]
       ELSE /\ wait_result' = [wait_result EXCEPT ![t] = WAIT_TIMEOUT]
            /\ UNCHANGED event
    /\ event_set' = remove_event_set_waiter(event_set, t)
    /\ pc' = [pc EXCEPT ![t] = "idle"]
    /\ UNCHANGED <<state, tick_count, ecalls, woken, arrivals>>
    /\ UNCHANGED <<mutexVars, semVars, queueVars, setVars, shmVars, extVars>>

\* timer_tick_handler: scheduler.tick_count++
timer_tick_handler(ticks) == ticks + 1

\* one timer tick: the tick count advances and the periodic timeout hook
\* runs check_event_timeouts over the event and the event set
TimerTick ==
    /\ tick_count < MaxTicks
    /\ tick_count' = timer_tick_handler(tick_count)
    /\ event' = check_event_timeouts(event, tick_count')
    /\ event_set' = check_event_timeouts(event_set, tick_count')
    /\ LET expired == ExpiredPids(event.waiters, tick_count')
                        \cup ExpiredPids(event_set.waiters, tick_count')
       IN  /\ state' = unblock_tasks(state, expired)
           /\ NoteWoken(event.waiters \o event_set.waiters, expired, "timeout")
    /\ UNCHANGED <<pc, ecalls, wait_result>>
    /\ UNCHANGED <<mutexVars, semVars, queueVars, setVars, shmVars, extVars>>

(* ------------------------ event-set membership ------------------------- *)

\* The events of the pool are used through the event set only: no task
\* waits on one of them directly, so their waiter lists stay empty and are
\* left out.  The set's waiter list is event_set, as above.

\* create_event, then optionally the manual-reset flag; header.ref_count = 1
pool_event(flags) ==
    [flags |-> flags, state |-> EVENT_STATE_NONSIGNALED, ref_count |-> 1]

\* create_event_set(name, max_events): NULL (no set) when max_events is 0
\* or above MAX_EVENTS_PER_SET; otherwise a set with event_count = 0
create_event_set_members(capacity) ==
    IF capacity = 0 \/ capacity > MAX_EVENTS_PER_SET
    THEN [live |-> FALSE, event_count |-> 0, events |-> <<>>]
    ELSE [live |-> TRUE, event_count |-> 0, events |-> <<>>]

\* a set whose header has been cleared by memset
cleared_event_set == [live |-> FALSE, event_count |-> 0, events |-> <<>>]

\* the events[0 .. event_count-1] of the set, as a set of ids
Members(es) == {es.events[i] : i \in 1..es.event_count}

\* event_set_timedwait: a scan that takes the first member whatever its
\* state
FirstSignaled_Any(es, pool) == IF es.event_count > 0 THEN 1 ELSE 0

\* event_set_timedwait: the loop over events[]; the index of the first
\* member that is signaled, 0 when there is none
FirstSignaled(es, pool) ==
    IF \E i \in 1..es.event_count :
           pool[es.events[i]].state = EVENT_STATE_SIGNALED
    THEN CHOOSE i \in 1..es.event_count :
           /\ pool[es.events[i]].state = EVENT_STATE_SIGNALED
           /\ \A j \in 1..(i - 1) :
                 pool[es.events[j]].state # EVENT_STATE_SIGNALED
    ELSE 0

\* a task that can make a call: runnable and not inside a call
CanCall(t) == Runnable(t) /\ pc[t] = "idle"

\* create_event_set in the slot of a destroyed set
CreateEventSet ==
    /\ \E t \in Tasks : CanCall(t)
    /\ setcalls < MaxSetCalls
    /\ ~set_events.live
    /\ setcalls' = setcalls + 1
    /\ \E capacity \in 0..MaxCapacity :
          /\ set_events' = create_event_set_members(capacity)
          /\ max_events' = IF set_events'.live THEN capacity ELSE max_events
    /\ event_set' = IF set_events'.live THEN create_event_set ELSE event_set
    /\ UNCHANGED <<state, pc, event, tick_count, ecalls, wait_result, woken,
                   arrivals, event_pool, signaled_event>>
    /\ UNCHANGED <<mutexVars, semVars, queueVars, shmVars, extVars>>

\* event_set_add: -1 on a cleared set; 0 without change when the event is
\* already in the set; -1 when event_count >= MAX_EVENTS_PER_SET; otherwise
\* append the event and increment its ref_count
EventSetAdd(e) ==
    /\ \E t \in Tasks : CanCall(t)
    /\ setcalls < MaxSetCalls
    /\ setcalls' = setcalls + 1
    /\ IF ~set_events.live \/ e \in Members(set_events)
          \/ set_events.event_count >= MAX_EVENTS_PER_SET
       THEN UNCHANGED <<set_events, event_pool>>
       ELSE /\ set_events' = [set_events EXCEPT
                                !.events = Append(@, e),
                                !.event_count = @ + 1]
            /\ event_pool' = [event_pool EXCEPT ![e].ref_count = @ + 1]
    /\ UNCHANGED <<state, pc, event, event_set, tick_count, ecalls,
                   wait_result, woken, arrivals, max_events, signaled_event>>
    /\ UNCHANGED <<mutexVars, semVars, queueVars, shmVars, extVars>>

\* event_set_remove: -1 on a cleared set or when the event is not in the
\* set; otherwise shift the later events down and decrement its ref_count
EventSetRemove(e) ==
    /\ \E t \in Tasks : CanCall(t)
    /\ setcalls < MaxSetCalls
    /\ setcalls' = setcalls + 1
    /\ IF ~set_events.live \/ e \notin Members(set_events)
       THEN UNCHANGED <<set_events, event_pool>>
       ELSE /\ set_events' = [set_events EXCEPT
                                !.events = SelectSeq(@, LAMBDA x : x # e),
                                !.event_count = @ - 1]
            /\ event_pool' = [event_pool EXCEPT ![e].ref_count = @ - 1]
    /\ UNCHANGED <<state, pc, event, event_set, tick_count, ecalls,
                   wait_result, woken, arrivals, max_events, signaled_event>>
    /\ UNCHANGED <<mutexVars, semVars, queueVars, shmVars, extVars>>

\* destroy_event_set: unblock and free every waiter, then memset the set
DestroyEventSet ==
    /\ \E t \in Tasks : CanCall(t)
    /\ setcalls < MaxSetCalls
    /\ set_events.live
    /\ setcalls' = setcalls + 1
    /\ state' = unblock_tasks(state, WokenPids(event_set, 0))
    /\ NoteWoken(event_set.waiters, WokenPids(event_set, 0), "destroy")
    /\ event_set' = [event_set EXCEPT !.waiters = <<>>, !.waiter_count = 0]
    /\ set_events' = cleared_event_set
    /\ UNCHANGED <<pc, event, tick_count, ecalls, wait_result, event_pool,
                   max_events, signaled_event>>
    /\ UNCHANGED <<mutexVars, semVars, queueVars, shmVars, extVars>>

\* event_signal on an event of the pool (it has no waiters of its own):
\* the state becomes SIGNALED
PoolSignal(e) ==
    /\ \E t \in Tasks : CanCall(t)
    /\ setcalls < MaxSetCalls
    /\ setcalls' = setcalls + 1
    /\ event_pool' = [event_pool EXCEPT ![e].state = EVENT_STATE_SIGNALED]
    /\ UNCHANGED <<state, pc, event, event_set, tick_count, ecalls,
                   wait_result, woken, arrivals, set_events, max_events,
                   signaled_event>>
    /\ UNCHANGED <<mutexVars, semVars, queueVars, shmVars, extVars>>

\* event_set_timedwait on the set, up to the unlock of the set: -1 on a
\* cleared set; take the first signaled member and report it; otherwise
\* enqueue on the set
SetWaitScan(t) ==
    /\ CanCall(t)
    /\ ecalls < MaxSetWaits
    /\ ecalls' = ecalls + 1
    /\ woken' = [woken EXCEPT ![t] = NotWoken]
    /\ IF ~set_events.live
       THEN /\ wait_result' = [wait_result EXCEPT ![t] = WAIT_TIMEOUT]
            /\ UNCHANGED <<pc, event_set, event_pool, signaled_event>>
       ELSE LET i == FirstSignaled(set_events, event_pool)
            IN  IF i > 0
                THEN /\ event_pool' =
                          [event_pool EXCEPT ![set_events.events[i]] =
                                                 take_signal(@)]
                     /\ signaled_event' =
                          [signaled_event EXCEPT ![t] = set_events.events[i]]
                     /\ wait_result' = [wait_result EXCEPT ![t] = WAIT_OK]
                     /\ UNCHANGED <<pc, event_set>>
                ELSE /\ \E timeout_ms \in TimeoutsMs :
                           event_set' =
                               add_event_set_waiter(event_set, t,
                                   timeout_ticks(timeout_ms), tick_count)
                     /\ pc' = [pc EXCEPT ![t] = "set_block"]
                     /\ UNCHANGED <<event_pool, signaled_event, wait_result>>
    /\ UNCHANGED <<state, event, tick_count, arrivals, set_events,
                   max_events, setcalls>>
    /\ UNCHANGED <<mutexVars, semVars, queueVars, shmVars, extVars>>

\* event_set_timedwait on the set, resumed after block_task: scan again,
\* 0 and the first signaled member or -1; remove_event_set_waiter
SetWaitRescan(t) ==
    /\ Runnable(t)
    /\ pc[t] = "set_resume"
    /\ LET i == FirstSignaled(set_events, event_pool)
       IN  IF i > 0
           THEN /\ event_pool' =
                     [event_pool EXCEPT ![set_events.events[i]] =
                                            take_signal(@)]
                /\ signaled_event' =
                     [signaled_event EXCEPT ![t] = set_events.events[i]]
                /\ wait_result' = [wait_result EXCEPT ![t] = WAIT_OK]
           ELSE /\ wait_result' = [wait_result EXCEPT ![t] = WAIT_TIMEOUT]
                /\ UNCHANGED <<event_pool, signaled_event>>
    /\ event_set' = remove_event_set_waiter(event_set, t)
    /\ pc' = [pc EXCEPT ![t] = "idle"]
    /\ UNCHANGED <<state, event, tick_count, ecalls, woken, arrivals,
                   set_events, max_events, setcalls>>
    /\ UNCHANGED <<mutexVars, semVars, queueVars, shmVars, extVars>>

(* --------------------------- shared memory ----------------------------- *)

\* One segment name is used; sizes are whole pages, so size and real_size
\* agree.  A permission or flag word is the set of its bits, and & is set
\* intersection.  alloc_pages returns a block never returned before.
\* map_pages and unmap_pages act on the page tables of the task whose
\* mapping lies at the virtual address they are given.  ref_count is kept
\* as the 32-bit pattern read as a signed number: -1 stands for 0xFFFFFFFF.

\* the permission words create_shared_memory and map_shared_memory are
\* called with; {} is 0
PermWords == SUBSET {SHM_PERM_READ, SHM_PERM_WRITE}

\* the flag words create_shared_memory is called with
FlagWords == {{SHM_FLAG_CREATE}, {SHM_FLAG_CREATE, SHM_FLAG_RESIZE},
              {SHM_FLAG_CREATE, SHM_FLAG_EXCL}, {}}

\* no segment of the name is on the shm_segments list
no_segment ==
    [live |-> FALSE, physical_addr |-> 0, size |-> 0, permissions |-> {},
     flags |-> {}, ref_count |-> 0, mappings |-> <<>>]

\* the pids of mappings[0 .. mapping_count-1]
MappedTasks(seg) == {seg.mappings[i].task_id : i \in 1..Len(seg.mappings)}

\* add_mapping: -ENOMEM (the segment unchanged) when the table is full
add_mapping(seg, task_id, size, permissions) ==
    IF Len(seg.mappings) >= MAX_SHM_MAPPINGS THEN seg
    ELSE [seg EXCEPT !.mappings =
              Append(@, [task_id |-> task_id, size |-> size,
                         permissions |-> permissions])]

\* remove_mapping / unmap_shared_memory_internal: the table without the
\* first entry of the task
remove_mapping(mappings, task_id) ==
    IF \E i \in 1..Len(mappings) : mappings[i].task_id = task_id
    THEN LET k == CHOOSE i \in 1..Len(mappings) :
                     /\ mappings[i].task_id = task_id
                     /\ \A j \in 1..(i - 1) : mappings[j].task_id # task_id
         IN  SubSeq(mappings, 1, k - 1) \o SubSeq(mappings, k + 1, Len(mappings))
    ELSE mappings

\* destroy_shared_memory: for (i = 0; i < mapping_count; i++)
\* unmap_shared_memory_internal(segment, mappings[i].task_id), from index i
\* (counted from 1) on: the table it leaves and the tasks it has unmapped
RECURSIVE unmap_all_loop(_, _)
unmap_all_loop(mappings, i) ==
    IF i > Len(mappings) THEN [table |-> mappings, unmapped |-> {}]
    ELSE LET task_id == mappings[i].task_id
             rest == unmap_all_loop(remove_mapping(mappings, task_id), i + 1)
         IN  [table |-> rest.table, unmapped |-> rest.unmapped \cup {task_id}]

\* create_shared_memory(name, size, permissions, flags), the name not on the
\* list: NULL without SHM_FLAG_CREATE, else a segment with ref_count 1
ShmCreateNew(t, size, permissions, flags) ==
    IF SHM_FLAG_CREATE \notin flags
    THEN UNCHANGED <<segment, next_phys, handles>>
    ELSE /\ segment' = [live |-> TRUE, physical_addr |-> next_phys,
                        size |-> size, permissions |-> permissions,
                        flags |-> flags, ref_count |-> 1, mappings |-> <<>>]
         /\ next_phys' = next_phys + 1
         /\ handles' = [handles EXCEPT ![t] = @ + 1]

\* create_shared_memory, the name on the list: NULL under SHM_FLAG_EXCL or
\* when the segment is too small and not resizable; otherwise grow it if
\* needed, take the permissions if they are not 0, increment ref_count
ShmCreateExisting(t, size, permissions, flags) ==
    IF \/ SHM_FLAG_EXCL \in flags
       \/ segment.size < size /\ SHM_FLAG_RESIZE \notin segment.flags
    THEN UNCHANGED <<segment, freed, next_phys, handles>>
    ELSE LET grow == segment.size < size
         IN  /\ segment' =
                  [segment EXCEPT
                     !.physical_addr = IF grow THEN next_phys ELSE @,
                     !.size = IF grow THEN size ELSE @,
                     !.permissions = IF permissions # {} THEN permissions
                                     ELSE @,
                     !.ref_count = @ + 1]
             /\ freed' = IF grow THEN freed \cup {segment.physical_addr}
                         ELSE freed
             /\ next_phys' = IF grow THEN next_phys + 1 ELSE next_phys
             /\ handles' = [handles EXCEPT ![t] = @ + 1]

\* create_shared_memory
ShmCreate(t) ==
    /\ pc[t] = "idle"
    /\ shmcalls < MaxShmCalls
    /\ shmcalls' = shmcalls + 1
    /\ \E size \in 1..MaxPages, permissions \in PermWords, flags \in FlagWords :
          IF segment.live
          THEN ShmCreateExisting(t, size, permissions, flags)
          ELSE ShmCreateNew(t, size, permissions, flags) /\ UNCHANGED freed
    /\ UNCHANGED <<state, pc, page_table>>
    /\ UNCHANGED <<mutexVars, semVars, queueVars, eventVars, setVars, extVars>>

\* destroy_shared_memory with a handle of the caller: decrement ref_count;
\* at 0 run the unmap loop, unlink the segment, free its pages and kfree it
\* (the handles to the freed segment are not used again)
ShmDestroy(t) ==
    /\ pc[t] = "idle"
    /\ shmcalls < MaxShmCalls
    /\ segment.live
    /\ handles[t] > 0
    /\ shmcalls' = shmcalls + 1
    /\ IF segment.ref_count - 1 = 0
       THEN LET done == unmap_all_loop(segment.mappings, 1)
            IN  /\ page_table' = [u \in Tasks |->
                                    IF u \in done.unmapped THEN 0
                                    ELSE page_table[u]]
                /\ freed' = freed \cup {segment.physical_addr}
                /\ segment' = no_segment
                /\ handles' = [u \in Tasks |-> 0]
       ELSE /\ segment' = [segment EXCEPT !.ref_count = @ - 1]
            /\ handles' = [handles EXCEPT ![t] = @ - 1]
            /\ UNCHANGED <<page_table, freed>>
    /\ UNCHANGED <<state, pc, next_phys>>
    /\ UNCHANGED <<mutexVars, semVars, queueVars, eventVars, setVars, extVars>>

\* map_shared_memory(shm, permissions): the existing address when the
\* caller has a mapping; NULL when permissions & segment->permissions is 0;
\* otherwise map_pages and add_mapping with the effective permissions
ShmMap(t) ==
    /\ pc[t] = "idle"
    /\ shmcalls < MaxShmCalls
    /\ segment.live
    /\ shmcalls' = shmcalls + 1
    /\ \E permissions \in PermWords :
          LET effective_permissions == permissions \cap segment.permissions
          IN  IF t \in MappedTasks(segment) \/ effective_permissions = {}
              THEN UNCHANGED <<segment, page_table>>
              ELSE /\ segment' = add_mapping(segment, t, segment.size,
                                             effective_permissions)
                   /\ page_table' =
                         IF Len(segment.mappings) >= MAX_SHM_MAPPINGS
                         THEN page_table
                         ELSE [page_table EXCEPT ![t] = segment.physical_addr]
    /\ UNCHANGED <<state, pc, freed, next_phys, handles>>
    /\ UNCHANGED <<mutexVars, semVars, queueVars, eventVars, setVars, extVars>>

\* unmap_shared_memory(addr, size) with the address of the caller's
\* mapping: -EINVAL when no segment has a mapping of the caller there;
\* otherwise remove_mapping, unmap_pages and flush
ShmUnmap(t) ==
    /\ pc[t] = "idle"
    /\ shmcalls < MaxShmCalls
    /\ shmcalls' = shmcalls + 1
    /\ IF segment.live /\ t \in MappedTasks(segment)
       THEN /\ segment' = [segment EXCEPT
                              !.mappings = remove_mapping(@, t)]
            /\ page_table' = [page_table EXCEPT ![t] = 0]
       ELSE UNCHANGED <<segment, page_table>>
    /\ UNCHANGED <<state, pc, freed, next_phys, handles>>
    /\ UNCHANGED <<mutexVars, semVars, queueVars, eventVars, setVars, extVars>>

\* resize_shared_memory with a handle of the caller: -EPERM without
\* SHM_FLAG_RESIZE; nothing to move when the page-aligned size is the same;
\* otherwise allocate, copy, remap every recorded mapping, free the old
\* pages
ShmResize(t) ==
    /\ pc[t] = "idle"
    /\ shmcalls < MaxShmCalls
    /\ segment.live
    /\ handles[t] > 0
    /\ shmcalls' = shmcalls + 1
    /\ \E new_size \in 1..MaxPages :
          IF SHM_FLAG_RESIZE \notin segment.flags \/ new_size = segment.size
          THEN UNCHANGED <<segment, page_table, freed, next_phys>>
          ELSE /\ page_table' = [u \in Tasks |->
                                   IF u \in MappedTasks(segment)
                                   THEN next_phys ELSE page_table[u]]
               /\ segment' =
                    [segment EXCEPT
                       !.mappings = [i \in 1..Len(@) |->
                                        [@[i] EXCEPT !.size = new_size]],
                       !.physical_addr = next_phys,
                       !.size = new_size]
               /\ freed' = freed \cup {segment.physical_addr}
               /\ next_phys' = next_phys + 1
    /\ UNCHANGED <<state, pc, handles>>
    /\ UNCHANGED <<mutexVars, semVars, queueVars, eventVars, setVars, extVars>>

\* cleanup_task_shared_memory(task_id), run when the task exits: every
\* mapping of the task is unmapped and removed, with one decrement of
\* ref_count each; the segment is left on the list when ref_count is 0
ShmTaskExit(t) ==
    /\ pc[t] = "idle"
    /\ pc' = [pc EXCEPT ![t] = "exited"]
    /\ IF segment.live /\ t \in MappedTasks(segment)
       THEN /\ segment' = [segment EXCEPT
                              !.mappings = remove_mapping(@, t),
                              !.ref_count = @ - 1]
            /\ page_table' = [page_table EXCEPT ![t] = 0]
       ELSE UNCHANGED <<segment, page_table>>
    /\ UNCHANGED <<state, freed, next_phys, handles, shmcalls>>
    /\ UNCHANGED <<mutexVars, semVars, queueVars, eventVars, setVars, extVars>>

(* ----------------------------- task exit ------------------------------- *)

\* cleanup_task_mutexes(pid): the task leaves the wait queue of the mutex;
\* a mutex it owns is released and all its waiters are woken
cleanup_task_mutexes(pid) ==
    /\ hold' = [hold EXCEPT ![pid] = 0]
    /\ IF owner = pid
       THEN /\ owner' = 0
            /\ lock_count' = 0
            /\ mwait' = <<>>
            /\ state' = unblock_tasks(state, {mwait[i] : i \in 1..Len(mwait)})
            /\ woken' = [u \in Tasks |->
                            IF u \in {mwait[i] : i \in 1..Len(mwait)}
                            THEN [by |-> "owner_dead",
                                  blocked |-> state[u] = TASK_STATE_BLOCKED,
                                  timeout |-> 0]
                            ELSE woken[u]]
       ELSE /\ mwait' = remove_waiter(mwait, pid)
            /\ UNCHANGED <<owner, lock_count, state, woken>>
    /\ UNCHANGED <<rounds, shared_counter, local_counter, tmp>>

\* cleanup_task_semaphores(pid): the task leaves the wait queue of the
\* semaphore
cleanup_task_semaphores(pid) ==
    /\ swait' = remove_waiter(swait, pid)
    /\ UNCHANGED <<sem, sops>>

\* cleanup_task_events(pid): remove_event_waiter on every event and
\* remove_event_set_waiter on every event set
cleanup_task_events(pid) ==
    /\ event' = remove_event_waiter(event, pid)
    /\ event_set' = IF set_events.live
                    THEN remove_event_set_waiter(event_set, pid)
                    ELSE event_set
    /\ arrivals' = SelectSeq(arrivals, LAMBDA u : u # pid)
    /\ UNCHANGED <<tick_count, ecalls, wait_result>>

\* cleanup_task_messages(pid) on the queue
cleanup_task_messages(pid) ==
    LET r == CleanupLoop(queue, pid, queue.head, 0, <<>>)
    IN  /\ queue' =
              IF Len(r.gone) > 0
              THEN [r.queue EXCEPT
                      !.msg_available =
                          semaphore_init(r.queue.current_size,
                                         r.queue.max_size),
                      !.space_available =
                          semaphore_init(r.queue.max_size
                                           - r.queue.current_size,
                                         r.queue.max_size)]
              ELSE r.queue
        /\ removed' = removed \o r.gone
        /\ UNCHANGED <<next_message_id, msgbuf, result, qcalls, accepted,
                       received>>

\* cleanup_task_shared_memory(pid) on the segment
cleanup_task_shared_memory(pid) ==
    /\ IF segment.live /\ pid \in MappedTasks(segment)
       THEN /\ segment' = [segment EXCEPT
                              !.mappings = remove_mapping(@, pid),
                              !.ref_count = @ - 1]
            /\ page_table' = [page_table EXCEPT ![pid] = 0]
       ELSE UNCHANGED <<segment, page_table>>
    /\ UNCHANGED <<freed, next_phys, handles, shmcalls>>

\* cleanup_task_ipc(pid), the task-exit handler, run for a task wherever it
\* is: the five cleanups in the order of the code; the task runs no more
cleanup_task_ipc(pid) ==
    /\ pc[pid] # "exited"
    /\ cleanups < MaxCleanups
    /\ cleanups' = cleanups + 1
    /\ pc' = [pc EXCEPT ![pid] = "exited"]
    /\ cleanup_task_mutexes(pid)
    /\ cleanup_task_semaphores(pid)
    /\ cleanup_task_events(pid)
    /\ cleanup_task_messages(pid)
    /\ cleanup_task_shared_memory(pid)
    /\ UNCHANGED <<setVars, extVars>>

(* ------------- message queue of src/kernel/message.c ------------------- *)

\* the only failure code of this implementation
RESULT_FAIL == "-1"

\* create_semaphore (src/kernel/ipc.c), with the wait queue in the record
pool_semaphore(initial_value) ==
    [live |-> TRUE, value |-> initial_value, max_value |-> INT32_MAX,
     waiters |-> <<>>]

\* destroy_semaphore: wake_waiters(&sem->wait_queue, 0), then memset
destroyed_semaphore ==
    [live |-> FALSE, value |-> 0, max_value |-> 0, waiters |-> <<>>]

\* semaphore_post(sem) of src/kernel/ipc.c on one of the queue's
\* semaphores: -1 on a NULL or cleared semaphore and at max_value, else
\* wake the head waiter or increment
pool_post(s) ==
    IF ~s.live \/ s.value = s.max_value THEN s
    ELSE IF Len(s.waiters) > 0
    THEN [s EXCEPT !.waiters = wake_one_queue(@)]
    ELSE [s EXCEPT !.value = @ + 1]

\* the task states semaphore_post leaves
pool_post_state(st, s) ==
    IF ~s.live \/ s.value = s.max_value THEN st
    ELSE wake_one_state(st, s.waiters)

PoolCanCall(t) ==
    /\ Runnable(t)
    /\ pc[t] = "idle"
    /\ poolcalls < MaxPoolCalls

\* the frame of the actions on the pool queue
PoolFrame ==
    UNCHANGED <<mutexVars, semVars, queue, next_message_id, msgbuf, qcalls,
                cleanups, accepted, received, removed, eventVars, setVars,
                shmVars, mutex_type, regVars, event_type, vmVars>>

\* the tasks on a semaphore's wait queue
PoolWaiters(s) == {s.waiters[i] : i \in 1..Len(s.waiters)}

\* send_message up to the slot reservation: -1 on a cleared queue; with
\* MESSAGE_FLAG_BLOCKING semaphore_wait(queue->free_slots), its cli..sti
\* region; otherwise semaphore_trywait
PoolSend(t) ==
    /\ PoolCanCall(t)
    /\ poolcalls' = poolcalls + 1
    /\ destroy_woken' = [destroy_woken EXCEPT ![t] = FALSE]
    /\ IF ~pool_queue.live
       THEN /\ result' = [result EXCEPT ![t] = RESULT_FAIL]
            /\ UNCHANGED <<free_slots, pc>>
       ELSE \E blocking \in BOOLEAN :
               IF free_slots.value > 0
               THEN /\ free_slots' = [free_slots EXCEPT !.value = @ - 1]
                    /\ pc' = [pc EXCEPT ![t] = "pool_enqueue"]
                    /\ UNCHANGED result
               ELSE IF blocking
               THEN /\ free_slots' = [free_slots EXCEPT
                                        !.waiters = add_waiter(@, t)]
                    /\ pc' = [pc EXCEPT ![t] = "pool_send_block"]
                    /\ UNCHANGED result
               ELSE /\ result' = [result EXCEPT ![t] = RESULT_FAIL]
                    /\ UNCHANGED <<free_slots, pc>>
    /\ UNCHANGED <<state, pool_queue, used_slots>>
    /\ PoolFrame

\* semaphore_wait after sti: block_task(current_pid); when the task runs
\* again semaphore_wait returns 0 and the caller goes on
PoolSendBlock(t) ==
    /\ Runnable(t)
    /\ pc[t] = "pool_send_block"
    /\ state' = block_task(state, t)
    /\ pc' = [pc EXCEPT ![t] = "pool_enqueue"]
    /\ UNCHANGED <<result, poolVars>>
    /\ PoolFrame

\* enqueue_message under queue->mutex: link the node, message_count++
PoolEnqueue(t) ==
    /\ Runnable(t)
    /\ pc[t] = "pool_enqueue"
    /\ pool_queue' = [pool_queue EXCEPT
                        !.nodes = Append(@, t),
                        !.message_count = @ + 1]
    /\ pc' = [pc EXCEPT ![t] = "pool_send_post"]
    /\ UNCHANGED <<state, result, free_slots, used_slots, destroy_woken,
                   poolcalls>>
    /\ PoolFrame

\* enqueue_message after the unlock: semaphore_post(queue->used_slots),
\* return 0
PoolSendPost(t) ==
    /\ Runnable(t)
    /\ pc[t] = "pool_send_post"
    /\ LET s == IF pool_queue.live THEN used_slots ELSE destroyed_semaphore
       IN  /\ used_slots' = IF pool_queue.live THEN pool_post(s)
                            ELSE used_slots
           /\ state' = pool_post_state(state, s)
    /\ result' = [result EXCEPT ![t] = RESULT_OK]
    /\ pc' = [pc EXCEPT ![t] = "idle"]
    /\ UNCHANGED <<pool_queue, free_slots, destroy_woken, poolcalls>>
    /\ PoolFrame

\* receive_message up to the message reservation (queue->flags is 0, so
\* the private-queue test passes)
PoolReceive(t) ==
    /\ PoolCanCall(t)
    /\ poolcalls' = poolcalls + 1
    /\ destroy_woken' = [destroy_woken EXCEPT ![t] = FALSE]
    /\ IF ~pool_queue.live
       THEN /\ result' = [result EXCEPT ![t] = RESULT_FAIL]
            /\ UNCHANGED <<used_slots, pc>>
       ELSE \E blocking \in BOOLEAN :
               IF used_slots.value > 0
               THEN /\ used_slots' = [used_slots EXCEPT !.value = @ - 1]
                    /\ pc' = [pc EXCEPT ![t] = "pool_dequeue"]
                    /\ UNCHANGED result
               ELSE IF blocking
               THEN /\ used_slots' = [used_slots EXCEPT
                                        !.waiters = add_waiter(@, t)]
                    /\ pc' = [pc EXCEPT ![t] = "pool_receive_block"]
                    /\ UNCHANGED result
               ELSE /\ result' = [result EXCEPT ![t] = RESULT_FAIL]
                    /\ UNCHANGED <<used_slots, pc>>
    /\ UNCHANGED <<state, pool_queue, free_slots>>
    /\ PoolFrame

\* semaphore_wait after sti: block_task(current_pid)
PoolReceiveBlock(t) ==
    /\ Runnable(t)
    /\ pc[t] = "pool_receive_block"
    /\ state' = block_task(state, t)
    /\ pc' = [pc EXCEPT ![t] = "pool_dequeue"]
    /\ UNCHANGED <<result, poolVars>>
    /\ PoolFrame

\* dequeue_message under queue->mutex: -1 when every list is empty, else
\* unlink the head node, message_count--
PoolDequeue(t) ==
    /\ Runnable(t)
    /\ pc[t] = "pool_dequeue"
    /\ IF pool_queue.nodes = <<>>
       THEN /\ result' = [result EXCEPT ![t] = RESULT_FAIL]
            /\ pc' = [pc EXCEPT ![t] = "idle"]
            /\ UNCHANGED pool_queue
       ELSE /\ pool_queue' = [pool_queue EXCEPT
                                !.nodes = Tail(@),
                                !.message_count = @ - 1]
            /\ pc' = [pc EXCEPT ![t] = "pool_receive_post"]
            /\ UNCHANGED result
    /\ UNCHANGED <<state, free_slots, used_slots, destroy_woken, poolcalls>>
    /\ PoolFrame

\* dequeue_message after the unlock: semaphore_post(queue->free_slots),
\* return 0
PoolReceivePost(t) ==
    /\ Runnable(t)
    /\ pc[t] = "pool_receive_post"
    /\ LET s == IF pool_queue.live THEN free_slots ELSE destroyed_semaphore
       IN  /\ free_slots' = IF pool_queue.live THEN pool_post(s)
                            ELSE free_slots
           /\ state' = pool_post_state(state, s)
    /\ result' = [result EXCEPT ![t] = RESULT_OK]
    /\ pc' = [pc EXCEPT ![t] = "idle"]
    /\ UNCHANGED <<pool_queue, used_slots, destroy_woken, poolcalls>>
    /\ PoolFrame

\* destroy_message_queue by the owner: free every node, destroy_mutex,
\* destroy_semaphore(free_slots) and destroy_semaphore(used_slots), each
\* of which wakes all its waiters and clears the semaphore, then
\* memset(queue, 0)
PoolDestroy(t) ==
    /\ PoolCanCall(t)
    /\ pool_queue.live
    /\ pool_queue.owner = t
    /\ poolcalls' = poolcalls + 1
    /\ LET pids == PoolWaiters(free_slots) \cup PoolWaiters(used_slots)
       IN  /\ state' = unblock_tasks(state, pids)
           /\ destroy_woken' = [u \in Tasks |->
                                  IF u \in pids
                                  THEN state[u] = TASK_STATE_BLOCKED
                                  ELSE destroy_woken[u]]
    /\ free_slots' = destroyed_semaphore
    /\ used_slots' = destroyed_semaphore
    /\ pool_queue' = [live |-> FALSE, owner |-> 0, max_messages |-> 0,
                      message_count |-> 0, nodes |-> <<>>]
    /\ UNCHANGED <<pc, result>>
    /\ PoolFrame

(* --------------------------- specification ----------------------------- *)

\* create_message_queue(name, PoolSize) of src/kernel/message.c, called by
\* task 1: free_slots = create_semaphore(.., max_messages), used_slots =
\* create_semaphore(.., 0), owner = get_current_pid(), no message
InitPool ==
    /\ pool_queue = [live |-> TRUE, owner |-> 1, max_messages |-> PoolSize,
                     message_count |-> 0, nodes |-> <<>>]
    /\ free_slots = pool_semaphore(PoolSize)
    /\ used_slots = pool_semaphore(0)
    /\ destroy_woken = [t \in Tasks |-> FALSE]
    /\ poolcalls = 0

\* init_queue_registry and init_message_system: no queue, no entry
InitRegistry ==
    /\ message_queues = <<>>
    /\ task_registry = [t \in Tasks |-> no_entry]
    /\ queue_msgs = [q \in QueueIds |-> <<>>]
    /\ next_queue = 1
    /\ regcalls = 0

\* two segments created with SHM_FLAG_RESIZE and one page each, no
\* mapping, next_shm_addr at the start of the shared memory region
InitVm ==
    /\ real_size = [s \in SegIds |-> 1]
    /\ virtual_addr = [s \in SegIds |-> [t \in Tasks |-> NoAddr]]
    /\ next_shm_addr = 0
    /\ vmcalls = 0

InitExt ==
    /\ InitPool
    /\ mutex_type = IPC_TYPE_MUTEX
    /\ InitRegistry
    /\ event_type = [e \in EventIds |-> IPC_TYPE_EVENT]
    /\ InitVm

\* create_mutex and the task set-up of test_mutex_contention
\* every task ready and idle, one unlocked mutex, one empty message queue
InitTasksWith(q, sent, next_id) ==
    /\ state = [t \in Tasks |-> TASK_STATE_READY]
    /\ pc = [t \in Tasks |-> "idle"]
    /\ owner = 0
    /\ lock_count = 0
    /\ mwait = <<>>
    /\ hold = [t \in Tasks |-> 0]
    /\ rounds = [t \in Tasks |-> 0]
    /\ shared_counter = 0
    /\ local_counter = [t \in Tasks |-> 0]
    /\ tmp = [t \in Tasks |-> 0]
    /\ swait = <<>>
    /\ sops = [t \in Tasks |-> 0]
    /\ queue = q
    /\ next_message_id = next_id
    /\ msgbuf = [t \in Tasks |-> NoMessage]
    /\ result = [t \in Tasks |-> RESULT_OK]
    /\ qcalls = 0
    /\ cleanups = 0
    /\ accepted = sent
    /\ received = <<>>
    /\ removed = <<>>
    /\ event_set = create_event_set
    /\ tick_count = 0
    /\ ecalls = 0
    /\ wait_result = [t \in Tasks |-> NO_RESULT]
    /\ woken = [t \in Tasks |-> NotWoken]
    /\ arrivals = <<>>
    /\ signaled_event = [t \in Tasks |-> 0]
    /\ setcalls = 0
    /\ segment = no_segment
    /\ page_table = [t \in Tasks |-> 0]
    /\ freed = {}
    /\ next_phys = 1
    /\ handles = [t \in Tasks |-> 0]
    /\ shmcalls = 0
    /\ InitExt

\* the same with the empty queue create_message_queue returns
InitTasks == InitTasksWith(create_message_queue(MaxSize), <<>>, 1)

\* one event set of capacity 1 with no events; the events of the pool are
\* auto-reset
InitMembers ==
    /\ event_pool = [e \in EventIds |-> pool_event({})]
    /\ set_events = create_event_set_members(1)
    /\ max_events = 1

\* the semaphore is created with initial_value 0, the event by create_event
Init ==
    /\ InitTasks
    /\ InitMembers
    /\ sem = create_semaphore(0)
    /\ event = create_event

\* the semaphore is created with any of the initial values
InitSem ==
    /\ InitTasks
    /\ InitMembers
    /\ sem \in {create_semaphore(v) : v \in InitialValues}
    /\ event = create_event

\* the event is an auto-reset event of create_event or the manual-reset
\* kernel event
InitEvent ==
    /\ InitTasks
    /\ InitMembers
    /\ sem = create_semaphore(0)
    /\ event \in {create_event, kernel_event}

MutexStep(t) ==
    \/ MutexLock(t)
    \/ MutexLockBlock(t)
    \/ MutexLockSetOwner(t)
    \/ MutexLockSetCount(t)
    \/ MutexTryLock(t)
    \/ CounterRead(t)
    \/ CounterWrite(t)
    \/ MutexUnlock(t)

Next == \E t \in Tasks : MutexStep(t)

\* the mutex of src/kernel/ipc.c under contention
Spec == Init /\ [][Next]_vars

SemStep(t) ==
    \/ SemWait(t)
    \/ SemWaitBlock(t)
    \/ SemWaitReturn(t)
    \/ SemTryWait(t)
    \/ SemPost(t)

SemNext == \E t \in Tasks : SemStep(t)

\* the semaphore of src/kernel/ipc.c
SpecSem == InitSem /\ [][SemNext]_vars

\* fairness of the scheduler: a runnable task is eventually run
SpecFair == Spec /\ \A t \in Tasks : WF_vars(MutexStep(t))

(* ------------------------- properties: mutex --------------------------- *)

\* the tasks between a successful mutex_lock/mutex_trylock and the matching
\* final mutex_unlock
InCritical == {t \in Tasks : hold[t] > 0}

RECURSIVE SumUpTo(_, _)
SumUpTo(f, n) == IF n = 0 THEN 0 ELSE f[n] + SumUpTo(f, n - 1)

\* no shared_counter++ is half done
NoIncrementInProgress == \A t \in Tasks : pc[t] # "cs_write"

\* C1: mutual exclusion. At most one task at a time is between a successful
\* return from mutex_lock/mutex_trylock and its matching final mutex_unlock,
\* and the counter incremented only inside that region equals the sum of the
\* increments of all tasks.
C1_MutualExclusion ==
    /\ Cardinality(InCritical) <= 1
    /\ NoIncrementInProgress => shared_counter = SumUpTo(local_counter, NumTasks)

\* a task that enqueued itself in mutex_lock and has been taken off the wait
\* queue by mutex_unlock, and has not yet resumed
HandedOver(t) ==
    /\ pc[t] \in {"lock_block", "lock_resume"}
    /\ \A i \in 1..Len(mwait) : mwait[i] # t

\* C2: no barging. When mutex_unlock brings the count to 0 while waiters
\* exist, the oldest waiter owns the mutex from that same step on: between the
\* unlock and the waiter resuming the mutex is never unowned nor owned by
\* another task.
C2_NoBarging == \A t \in Tasks : HandedOver(t) => owner = t

\* C3: no deadlock. Under a fair scheduler, with every owner unlocking, every
\* task that enters the blocking branch of mutex_lock eventually returns from
\* it.
C3_LockReturns ==
    \A t \in Tasks : (pc[t] = "lock_block") ~> (pc[t] = "cs")

\* C4: in every reachable state recursion_count > 0 iff owner_pid # 0, and a
\* non-empty wait queue implies owner # 0.
C4_MutexInvariant ==
    /\ (lock_count > 0) <=> (owner # 0)
    /\ (mwait # <<>>) => (owner # 0)

QueueStep(t) ==
    \/ SendReserve(t)
    \/ SendInsert(t)
    \/ SendPost(t)
    \/ ReceiveReserve(t)
    \/ ReceivePop(t)
    \/ ReceivePost(t)

QueueNext == \E t \in Tasks : QueueStep(t)

\* concurrent senders and receivers on one message queue
SpecQueue == Init /\ [][QueueNext]_vars

CleanupNext ==
    \/ \E t \in Tasks : QueueStep(t)
    \/ \E pid \in Tasks : Cleanup(pid)

\* senders, receivers and the task-exit cleanup on one message queue
SpecCleanup == Init /\ [][CleanupNext]_vars

EventStep(t) ==
    \/ EventTimedWait(t)
    \/ EventWaitBlock(t)
    \/ EventWaitResume(t)
    \/ EventSignal(t)
    \/ EventBroadcast(t)
    \/ EventReset(t)
    \/ EventSetTimedWait(t)
    \/ EventSetWaitBlock(t)
    \/ EventSetWaitResume(t)

EventNext == TimerTick \/ \E t \in Tasks : EventStep(t)

\* tasks waiting on, signalling, broadcasting and resetting one event, and
\* waiting on the event set that holds it, while the timer ticks
SpecEvent == InitEvent /\ [][EventNext]_vars

\* create_event_set with a capacity of 1..MaxCapacity, and a pool of
\* auto-reset and manual-reset events
InitEventSet ==
    /\ InitTasks
    /\ sem = create_semaphore(0)
    /\ event = create_event
    /\ event_pool \in [EventIds -> {pool_event({}),
                                    pool_event({EVENT_FLAG_MANUAL_RESET})}]
    /\ \E capacity \in 1..MaxCapacity :
          /\ set_events = create_event_set_members(capacity)
          /\ max_events = capacity

EventSetNext ==
    \/ CreateEventSet
    \/ DestroyEventSet
    \/ \E e \in EventIds : EventSetAdd(e)
    \/ \E e \in EventIds : EventSetRemove(e)
    \/ \E e \in EventIds : PoolSignal(e)
    \/ \E t \in Tasks : SetWaitScan(t)
    \/ \E t \in Tasks : EventSetWaitBlock(t)
    \/ \E t \in Tasks : SetWaitRescan(t)
    \/ TimerTick

\* tasks adding events to and removing them from one event set, destroying
\* and re-creating it, signaling its members and waiting on it
SpecEventSet == InitEventSet /\ [][EventSetNext]_vars

ShmNext ==
    \E t \in Tasks :
       \/ ShmCreate(t)
       \/ ShmDestroy(t)
       \/ ShmMap(t)
       \/ ShmUnmap(t)
       \/ ShmResize(t)
       \/ ShmTaskExit(t)

\* tasks creating, mapping, unmapping, resizing and destroying one named
\* shared-memory segment, and exiting
SpecShm == Init /\ [][ShmNext]_vars

\* a queue of capacity CleanupQueueSize whose head is at slot head and that
\* holds the messages msgs, oldest first
filled_queue(head, msgs) ==
    [create_message_queue(CleanupQueueSize) EXCEPT
        !.messages = [i \in 0..(CleanupQueueSize - 1) |->
                         LET k == (i - head + CleanupQueueSize)
                                     % CleanupQueueSize
                         IN  IF k < Len(msgs) THEN msgs[k + 1] ELSE NoMessage],
        !.current_size = Len(msgs),
        !.head = head,
        !.tail = (head + Len(msgs)) % CleanupQueueSize,
        !.msg_available = semaphore_init(Len(msgs), CleanupQueueSize),
        !.space_available = semaphore_init(CleanupQueueSize - Len(msgs),
                                           CleanupQueueSize)]

\* normal-priority messages 1..n sent by and addressed to any of the tasks
\* and still queued, the ring buffer starting at any slot
InitFilledQueue ==
    \E n \in 0..CleanupQueueSize, head \in 0..(CleanupQueueSize - 1) :
       \E from \in [1..n -> Tasks], to \in [1..n -> Tasks] :
          LET msgs == [i \in 1..n |->
                          [message_id |-> i, sender |-> from[i],
                           receiver |-> to[i],
                           priority |-> MESSAGE_PRIORITY_NORMAL,
                           flags |-> {}]]
          IN  /\ InitTasksWith(filled_queue(head, msgs), msgs, n + 1)
              /\ InitMembers
              /\ sem = create_semaphore(0)
              /\ event = create_event

TaskExitNext == \E pid \in Tasks : Cleanup(pid)

\* the task-exit cleanup of one task on a queue that holds messages from
\* and to several tasks
SpecTaskExit == InitFilledQueue /\ [][TaskExitNext]_vars

\* the same, where the timer keeps ticking and every task that can take a
\* step is eventually scheduled
SpecEventFair ==
    /\ SpecEvent
    /\ WF_vars(TimerTick)
    /\ \A t \in Tasks : WF_vars(EventStep(t))

(* ------------------------- semaphore properties ------------------------ *)

PostSucceeds(t) == SemPost(t) /\ sem.value # sem.max_value

\* the tasks a step takes out of TASK_STATE_BLOCKED
Unblocked == {u \in Tasks : state[u] = TASK_STATE_BLOCKED
                            /\ state'[u] # TASK_STATE_BLOCKED}

\* C6: every successful semaphore_post does exactly one of two things: with
\* a waiter queued it unblocks exactly one waiter and leaves value unchanged;
\* with none it increments value by one and unblocks nobody.
C6_PostHandsOff ==
    [][\A t \in Tasks : PostSucceeds(t) =>
          IF Len(swait) > 0
          THEN sem'.value = sem.value /\ Cardinality(Unblocked) = 1
          ELSE sem'.value = sem.value + 1 /\ Cardinality(Unblocked) = 0]_vars

(* ----------------------- message queue properties ---------------------- *)

\* the message was sent with MESSAGE_FLAG_URGENT
IsUrgent(m) == HasFlag(m.flags, MESSAGE_FLAG_URGENT)

\* the place of a stored message in the order of arrival
Arrival(m) == CHOOSE i \in 1..Len(accepted) : accepted[i] = m

\* the elements of a sequence
Range(seq) == {seq[i] : i \in 1..Len(seq)}

\* no element occurs twice
NoDuplicates(seq) ==
    \A i, j \in 1..Len(seq) : i # j => seq[i] # seq[j]

\* C7: as long as no message has been sent with the Urgent flag, the queue
\* hands its messages out in non-increasing priority, and messages of equal
\* priority in the order they arrived.
C7_PriorityOrder ==
    (\A k \in 1..Len(accepted) : ~IsUrgent(accepted[k])) =>
        \A i, j \in 1..queue.current_size : i < j =>
            LET a == Contents(queue)[i]
                b == Contents(queue)[j]
            IN  \/ a.priority > b.priority
                \/ a.priority = b.priority /\ Arrival(a) < Arrival(b)

\* C8: a message sent with the Urgent flag is ahead of every message in the
\* queue that was sent without it, whatever the priority fields and the
\* order of sending.
C8_UrgentFirst ==
    \A i, j \in 1..queue.current_size :
        (i < j /\ IsUrgent(Contents(queue)[j])) => IsUrgent(Contents(queue)[i])

\* no send_message or receive_message call is in progress
Quiescent == \A t \in Tasks : pc[t] \in {"idle", "exited"}

\* C9: at every quiescent point current_size equals the value of the
\* used-slots semaphore and max_size - current_size equals the value of the
\* free-slots semaphore.
C9_SlotAccounting ==
    Quiescent =>
        /\ queue.current_size = queue.msg_available.value
        /\ queue.max_size - queue.current_size = queue.space_available.value

\* C10: across the interleavings of concurrent senders and receivers no
\* message is lost, duplicated or altered: the messages accepted and not yet
\* received are exactly the current_size <= max_size messages in the queue.
C10_NoLossNoDuplication ==
    /\ queue.current_size <= queue.max_size
    /\ NoDuplicates(Contents(queue))
    /\ NoDuplicates(received)
    /\ Range(received) \subseteq Range(accepted)
    /\ Range(accepted) \ Range(received) = Range(Contents(queue))

\* a receiver and a sender are both between their locked region and their
\* post, one message has been received and one is in the queue
C10_Witness ==
    /\ Len(received) > 0
    /\ queue.current_size > 0
    /\ \E t, u \in Tasks : pc[t] = "send_post" /\ pc[u] = "receive_post"

WaitReturns(t) == EventWaitResume(t)

\* C12: a task that was blocked in event_wait (no timeout) on an auto-reset
\* event and was woken by a later event_signal returns success (0) from
\* its wait.
C12_SignaledWaitSucceeds ==
    [][\A t \in Tasks :
          (/\ WaitReturns(t)
           /\ ~IsManualReset(event)
           /\ woken[t] = [by |-> "signal", blocked |-> TRUE, timeout |-> 0])
             => wait_result'[t] = WAIT_OK]_vars

\* the blocked waiters of the event: the tasks on its wait queue that are
\* TASK_STATE_BLOCKED
BlockedWaiters ==
    {u \in Tasks : /\ u \in {event.waiters[i].pid : i \in 1..Len(event.waiters)}
                   /\ state[u] = TASK_STATE_BLOCKED}

\* C13: event_signal on an auto-reset event that has k >= 1 blocked waiters
\* unblocks exactly one of them, leaves the other k - 1 blocked, and leaves
\* the event non-signaled.
C13_SignalWakesExactlyOne ==
    [][\A t \in Tasks :
          (/\ EventSignal(t)
           /\ ~IsManualReset(event)
           /\ BlockedWaiters # {})
             => /\ \E u \in BlockedWaiters :
                      /\ state'[u] # TASK_STATE_BLOCKED
                      /\ \A v \in BlockedWaiters \ {u} :
                             state'[v] = TASK_STATE_BLOCKED
                /\ event'.state = EVENT_STATE_NONSIGNALED]_vars

C15_ManualReset ==
    [][\A t \in Tasks :
          IsManualReset(event) =>
             /\ EventSignal(t)
                   => /\ \A u \in BlockedWaiters :
                             state'[u] # TASK_STATE_BLOCKED
                      /\ event'.state = EVENT_STATE_SIGNALED
             /\ (EventTimedWait(t) /\ event.state = EVENT_STATE_SIGNALED)
                   => /\ wait_result'[t] = WAIT_OK
                      /\ pc'[t] = "idle"
                      /\ event'.state = EVENT_STATE_SIGNALED
             /\ (WaitReturns(t) /\ woken[t].by = "signal")
                   => wait_result'[t] = WAIT_OK
             /\ (EventTimedWait(t) /\ event.state = EVENT_STATE_NONSIGNALED)
                   => pc'[t] = "event_block"]_vars

\* C16: event_broadcast on an auto-reset event unblocks every blocked
\* waiter and leaves the event non-signaled, so that a wait issued after
\* the broadcast finds it non-signaled and blocks.
C16_BroadcastClears ==
    [][\A t \in Tasks :
          (EventBroadcast(t) /\ ~IsManualReset(event))
             => /\ \A u \in BlockedWaiters : state'[u] # TASK_STATE_BLOCKED
                /\ event'.waiters = <<>>
                /\ event'.state = EVENT_STATE_NONSIGNALED]_vars

\* the waiter entry of task t on the event's wait queue has a timeout whose
\* deadline the timer reaches
TimedWaiter(t) ==
    \E i \in 1..Len(event.waiters) :
        /\ event.waiters[i].pid = t
        /\ event.waiters[i].timeout > 0
        /\ event.waiters[i].wait_start_time + event.waiters[i].timeout
              <= MaxTicks

\* the event is or has been signaled for task t
SignalSeen(t) ==
    \/ event.state = EVENT_STATE_SIGNALED
    \/ woken[t].by \in {"signal", "broadcast"}

\* C17: a task in event_timedwait with a timeout, on an event that is not
\* signaled, is taken off the wait queue and unblocked by the sweep at the
\* first tick at which its deadline has been reached, and its call returns
\* -1 (Timeout); the sweep removes no waiter before its deadline and never
\* removes a waiter enqueued without a timeout.
C17_TimedWaitTimesOut ==
    /\ [][TimerTick =>
             \A i \in 1..Len(event.waiters) :
                 LET w == event.waiters[i]
                     due == w.timeout > 0
                              /\ w.wait_start_time + w.timeout <= tick_count'
                 IN  /\ due => /\ w.pid \notin {event'.waiters[j].pid :
                                                   j \in 1..Len(event'.waiters)}
                               /\ state'[w.pid] # TASK_STATE_BLOCKED
                     /\ ~due => \E j \in 1..Len(event'.waiters) :
                                    event'.waiters[j] = w]_vars
    /\ \A t \in Tasks :
          TimedWaiter(t) ~>
              (\/ pc[t] = "idle" /\ wait_result[t] = WAIT_TIMEOUT
               \/ SignalSeen(t))

\* a signal or broadcast took task t off the wait queue to wake it
SignalDelivered(t) == woken[t].by \in {"signal", "broadcast"}

\* C18: a timed wait whose waiter was woken by a signal returns success,
\* also when its deadline has been reached by the time it resumes; a wait
\* returns -1 (Timeout) only if no signal was delivered to its waiter.
C18_SignalWins ==
    [][\A t \in Tasks :
          WaitReturns(t) =>
             /\ (woken[t].by = "signal" /\ woken[t].timeout > 0)
                   => wait_result'[t] = WAIT_OK
             /\ (wait_result'[t] = WAIT_TIMEOUT) => ~SignalDelivered(t)]_vars

\* C19: tasks are unblocked in enqueue order, and a wake of a single waiter
\* wakes the earliest-enqueued one.  On the event's wait queue: the waiter
\* that event_signal takes off the queue of an auto-reset event to unblock
\* it is the one that was enqueued first.
C19_WakeInEnqueueOrder ==
    [][\A t \in Tasks :
          (/\ EventSignal(t)
           /\ ~IsManualReset(event)
           /\ event.waiter_count > 0)
             => Range(WaiterPids(event.waiters))
                   \ Range(WaiterPids(event'.waiters)) = {Head(arrivals)}]_vars

(* ----------------------- all wait queues together ---------------------- *)

\* mutex_lock calls made so far: completed rounds, locks held, and calls
\* that are waiting for the mutex
MutexCalls ==
    SumUpTo([t \in Tasks |->
                rounds[t] + hold[t]
                  + (IF pc[t] \in {"lock_block", "lock_resume", "lock_count"}
                     THEN 1 ELSE 0)], NumTasks)

\* semaphore calls made so far
SemCalls == SumUpTo(sops, NumTasks)

\* event and event-set calls made and timer ticks seen so far
EventCalls == ecalls + tick_count

\* the number of kinds of object the run has used
ObjectsUsed ==
    (IF MutexCalls > 0 THEN 1 ELSE 0) + (IF SemCalls > 0 THEN 1 ELSE 0)
      + (IF EventCalls > 0 THEN 1 ELSE 0)

\* a run uses one kind of object, up to that object's own bounds, or mixes
\* them for MaxMixedCalls calls
WithinMix ==
    \/ ObjectsUsed <= 1
    \/ MutexCalls + SemCalls + EventCalls <= MaxMixedCalls

WaitQueueNext ==
    \/ \E t \in Tasks : MutexStep(t) /\ WithinMix'
    \/ \E t \in Tasks : SemStep(t) /\ WithinMix'
    \/ \E t \in Tasks : EventStep(t) /\ WithinMix'
    \/ TimerTick /\ WithinMix'

\* the tasks use the mutex, the semaphore, the event and the event set
SpecWaitQueues == InitEvent /\ [][WaitQueueNext]_vars

\* a run makes MaxCallsBeforeExit calls and ticks in all
WithinExit == MutexCalls + SemCalls + EventCalls <= MaxCallsBeforeExit

ExitNext ==
    \/ \E t \in Tasks : MutexStep(t) /\ WithinExit'
    \/ \E t \in Tasks : SemStep(t) /\ WithinExit'
    \/ \E t \in Tasks : EventStep(t) /\ WithinExit'
    \/ TimerTick /\ WithinExit'
    \/ \E pid \in Tasks : cleanup_task_ipc(pid)

\* the tasks use the mutex, the semaphore, the event and the event set, and
\* one of them exits, wherever it is
SpecExit == InitEvent /\ [][ExitNext]_vars

BlockedSetWaiters ==
    {u \in Tasks :
        /\ u \in {event_set.waiters[i].pid : i \in 1..Len(event_set.waiters)}
        /\ state[u] = TASK_STATE_BLOCKED}

\* C21: a task blocked in event_set_wait is unblocked when a member event
\* of the set is signaled: event_signal on the member, with tasks blocked
\* on the set, unblocks at least one of them.
C21_SetWaiterWoken ==
    [][\A t \in Tasks :
          (EventSignal(t) /\ BlockedSetWaiters # {})
             => \E u \in BlockedSetWaiters :
                   state'[u] # TASK_STATE_BLOCKED]_vars


\* a step in which event_set_timedwait returns to task t
SetWaitReturns(t) ==
    \/ SetWaitScan(t) /\ pc'[t] = "idle"
    \/ SetWaitRescan(t)

\* C22: when a wait on the event set returns success, the event it reports
\* was a signaled member of the set, that event is consumed (auto-reset:
\* non-signaled afterwards, manual-reset: unchanged), and no other event is
\* changed.
C22_SetWaitConsumesReported ==
    [][\A t \in Tasks :
          (SetWaitReturns(t) /\ wait_result'[t] = WAIT_OK)
             => LET e == signaled_event'[t]
                IN  /\ e \in Members(set_events)
                    /\ event_pool[e].state = EVENT_STATE_SIGNALED
                    /\ event_pool'[e].state =
                          IF IsManualReset(event_pool[e])
                          THEN EVENT_STATE_SIGNALED
                          ELSE EVENT_STATE_NONSIGNALED
                    /\ \A o \in EventIds \ {e} :
                          event_pool'[o] = event_pool[o]]_vars

\* a wait has reported and reset an auto-reset member while another member
\* is still signaled
C22_Witness ==
    \E t \in Tasks : \E e, o \in Members(set_events) :
       /\ e # o
       /\ wait_result[t] = WAIT_OK
       /\ signaled_event[t] = e
       /\ ~IsManualReset(event_pool[e])
       /\ event_pool[e].state = EVENT_STATE_NONSIGNALED
       /\ event_pool[o].state = EVENT_STATE_SIGNALED


\* C23: the ref_count of every event is 1 plus the number of live event
\* sets that contain it.
C23_RefCountReflectsInclusion ==
    \A e \in EventIds :
       event_pool[e].ref_count =
          1 + (IF set_events.live /\ e \in Members(set_events) THEN 1 ELSE 0)


\* C24: the event set never holds more events than the max_events it was
\* created with (event_set_add on a set that holds max_events events fails
\* and adds nothing).
C24_SetBoundedByCapacity ==
    set_events.live => set_events.event_count <= max_events


(* ---------------------- properties: shared memory ---------------------- *)

\* handles to the segment held by the tasks that obtained them from
\* create_shared_memory
RECURSIVE HandlesHeld(_)
HandlesHeld(ts) ==
    IF ts = {} THEN 0
    ELSE LET t == CHOOSE u \in ts : TRUE
         IN  handles[t] + HandlesHeld(ts \ {t})

\* C25: while the segment is live its ref_count is the number of handles
\* held from create plus the number of recorded mappings (map adds one,
\* unmap takes one away).
C25_RefCountIsHandlesPlusMappings ==
    segment.live =>
       segment.ref_count = HandlesHeld(Tasks) + Len(segment.mappings)

\* C26: the permissions of every recorded mapping are a subset of the
\* current default permissions of the segment.
C26_EffectiveWithinDefault ==
    \A i \in 1..Len(segment.mappings) :
       segment.mappings[i].permissions \subseteq segment.permissions

\* C27: unmap_shared_memory by a task that has a mapping removes the
\* mapping and decrements ref_count, and when ref_count reaches 0 the
\* segment is destroyed and its pages are freed.
C27_UnmapReleases ==
    [][\A t \in Tasks :
          (ShmUnmap(t) /\ segment.live /\ t \in MappedTasks(segment))
             => /\ t \notin MappedTasks(segment')
                /\ IF segment.ref_count = 1
                   THEN /\ ~segment'.live
                        /\ segment.physical_addr \in freed'
                   ELSE segment'.ref_count = segment.ref_count - 1]_vars

\* C28: no task has a recorded or installed mapping to pages that have
\* been passed to free_pages.
C28_NoMappingToFreedPages ==
    /\ \A t \in Tasks : page_table[t] \notin freed
    /\ (segment.live /\ segment.mappings # <<>>)
          => segment.physical_addr \notin freed


(* ------------------------ properties: task exit ------------------------ *)

\* a message with sender or receiver pid
Involves(m, pid) == m.sender = pid \/ m.receiver = pid

\* C29: the task-exit cleanup for pid leaves no queued message with sender
\* or receiver pid, and leaves every other message queued once, in the
\* order the messages had before.
C29_CleanupRemovesExactlyTasksMessages ==
    [][\A pid \in Tasks :
          Cleanup(pid)
             => Contents(queue') =
                   SelectSeq(Contents(queue), LAMBDA m : ~Involves(m, pid))]_vars

\* a cleanup has removed a message that was queued between two messages
\* that are still queued
C29_Witness ==
    /\ \E pid \in Tasks : pc[pid] = "exited"
    /\ \E i, j \in 1..queue.current_size : \E k \in 1..Len(removed) :
          /\ Contents(queue)[i].message_id < removed[k].message_id
          /\ removed[k].message_id < Contents(queue)[j].message_id


\* the tasks on the wait queue of the mutex, the semaphore, the event or
\* the event set
Waiting ==
    {mwait[i] : i \in 1..Len(mwait)} \cup {swait[i] : i \in 1..Len(swait)}
       \cup {event.waiters[i].pid : i \in 1..Len(event.waiters)}
       \cup {event_set.waiters[i].pid : i \in 1..Len(event_set.waiters)}

C31_OwnerDeadReleased ==
    /\ \A pid \in Tasks : pc[pid] = "exited" => owner # pid
    /\ \A u \in Tasks :
          (woken[u].by = "owner_dead" /\ state[u] = TASK_STATE_BLOCKED)
             => u \in Range(mwait)


(* ------------------- blocking send / receive (C33) --------------------- *)

RESULT_ETIMEDOUT == "-ETIMEDOUT"

\* send_message / receive_message: is_blocking = (flags & MESSAGE_FLAG_BLOCKING)
\* != 0. MESSAGE_FLAG_BLOCKING is defined as 0 (message.h:94), so this is
\* false for every flag word and the semaphore_wait(.., QUEUE_TIMEOUT_MS)
\* branch of both calls is never taken.
is_blocking(flags) == HasFlag(flags, MESSAGE_FLAG_BLOCKING)

\* C33: a receive_message on an empty queue, or a send_message on a full
\* queue, made with MESSAGE_FLAG_BLOCKING suspends the caller and returns
\* Timeout, leaving the queue unchanged. Here: every such call (flag word
\* MESSAGE_FLAG_BLOCKING, which is the empty word) that finds no message,
\* or no free slot, returns -ETIMEDOUT and leaves the queue as it was.
C33_BlockingCallTimesOut ==
    [][\A t \in Tasks :
          /\ (ReceiveReserve(t) /\ queue.current_size = 0
                /\ ~semaphore_trywait_ok(queue.msg_available))
                => (result'[t] = RESULT_ETIMEDOUT /\ queue' = queue)
          /\ (SendReserve(t) /\ queue.current_size = queue.max_size
                /\ ~semaphore_trywait_ok(queue.space_available))
                => (result'[t] = RESULT_ETIMEDOUT /\ queue' = queue)]_vars


(* ------------------ destroy of a queue with waiters -------------------- *)

PoolStep(t) ==
    \/ PoolSend(t)
    \/ PoolSendBlock(t)
    \/ PoolEnqueue(t)
    \/ PoolSendPost(t)
    \/ PoolReceive(t)
    \/ PoolReceiveBlock(t)
    \/ PoolDequeue(t)
    \/ PoolReceivePost(t)
    \/ PoolDestroy(t)

PoolNext == \E t \in Tasks : PoolStep(t)

\* tasks sending to, receiving from and destroying the pool queue
SpecPool == Init /\ [][PoolNext]_vars

\* C34: a task blocked in send or receive on a queue that is then destroyed
\* is woken and its call fails; it neither stays blocked forever nor goes
\* on to enqueue into or dequeue from the destroyed queue. Here: a task
\* that was BLOCKED on one of the queue's semaphores when the destroy took
\* it off the wait queue is not blocked, does not reach the end of an
\* enqueue or dequeue, and when its call has returned the result is the
\* failure code.
C34_DestroyWakesWithError ==
    \A t \in Tasks :
       destroy_woken[t] =>
          /\ state[t] # TASK_STATE_BLOCKED
          /\ pc[t] \notin {"pool_send_post", "pool_receive_post"}
          /\ pc[t] = "idle" => result[t] = RESULT_FAIL


(* --------------------------- destroy_mutex ----------------------------- *)

\* destroy_mutex: returns at once on a cleared mutex; otherwise
\* wake_waiters(&mutex->wait_queue, 0) unblocks and dequeues every waiter
\* and memset clears owner, lock_count and header.type, whoever owns the
\* mutex
MutexDestroy(t) ==
    /\ Runnable(t)
    /\ pc[t] \in {"idle", "cs"}
    /\ mutex_type = IPC_TYPE_MUTEX
    /\ state' = unblock_tasks(state, Range(mwait))
    /\ mwait' = <<>>
    /\ owner' = 0
    /\ lock_count' = 0
    /\ mutex_type' = 0
    /\ UNCHANGED <<pc, hold, rounds, shared_counter, local_counter, tmp>>
    /\ UNCHANGED <<semVars, queueVars, eventVars, setVars, shmVars, poolVars,
                   regVars, event_type, vmVars>>

\* the mutex calls of a task, each of which returns -1 without effect
\* when header.type is not IPC_TYPE_MUTEX, the steps that continue a call
\* already past that test, and destroy_mutex
MutexDestroyStep(t) ==
    \/ /\ mutex_type = IPC_TYPE_MUTEX
       /\ \/ MutexLock(t)
          \/ MutexTryLock(t)
          \/ MutexUnlock(t)
    \/ MutexLockBlock(t)
    \/ MutexLockSetOwner(t)
    \/ MutexLockSetCount(t)
    \/ CounterRead(t)
    \/ CounterWrite(t)
    \/ MutexDestroy(t)

MutexDestroyNext == \E t \in Tasks : MutexDestroyStep(t)

\* the contending tasks with destroy_mutex called at any point
SpecMutexDestroy == Init /\ [][MutexDestroyNext]_vars

\* C35: destroy on a mutex that has an owner or at least one waiter fails
\* with Busy and leaves the mutex, its owner and its wait queue unchanged.
C35_DestroyBusyLeavesMutex ==
    [][\A t \in Tasks :
          (MutexDestroy(t) /\ (owner # 0 \/ mwait # <<>>))
             => UNCHANGED <<owner, lock_count, mwait, mutex_type, state>>]_vars


(* ------------------ add_waiter without memory (C36) -------------------- *)

\* mutex_lock on a mutex another task owns when kmalloc in add_waiter
\* returns NULL: add_waiter prints and returns without enqueuing, and
\* mutex_lock, which cannot see that, goes on to sti and block_task
MutexLockNoMem(t) ==
    /\ Runnable(t)
    /\ \/ pc[t] = "idle" /\ rounds[t] < MaxRounds
       \/ pc[t] = "cs" /\ hold[t] < MaxDepth
    /\ owner \notin {0, t}
    /\ pc' = [pc EXCEPT ![t] = "lock_block"]
    /\ UNCHANGED <<state, mutexVars, semVars, queueVars, eventVars, setVars,
                   shmVars, extVars>>

NoMemNext == \E t \in Tasks : MutexStep(t) \/ MutexLockNoMem(t)

\* the contending tasks, with kmalloc free to fail in add_waiter
SpecNoMem == Init /\ [][NoMemNext]_vars

\* C36: a task is suspended by a blocking call only while it is present
\* in that object's wait queue; in particular, when the waiter record
\* cannot be allocated the caller is not blocked without being enqueued.
\* Here, for mutex_lock: a task BLOCKED inside mutex_lock is on
\* mutex->wait_queue.
C36_BlockedOnlyWhileEnqueued ==
    \A t \in Tasks :
       (state[t] = TASK_STATE_BLOCKED /\ pc[t] = "lock_resume")
          => t \in Range(mwait)


(* ------------------- queue registry and replies ------------------------ *)

RESULT_ENOENT == "-ENOENT"

\* the frame of the registry actions
RegFrame ==
    UNCHANGED <<state, pc, mutexVars, semVars, queue, msgbuf, qcalls,
                cleanups, accepted, received, removed, eventVars, setVars,
                shmVars, poolVars, mutex_type, event_type, vmVars>>

RegCanCall(t) ==
    /\ Runnable(t)
    /\ pc[t] = "idle"
    /\ regcalls < MaxRegCalls

\* the queues of a registry entry
Registered(entry) == {entry.queues[i] : i \in 1..Len(entry.queues)}

\* register_task_queue: nothing when the queue is already in the entry,
\* else append it (the entry has room for MAX_TASK_QUEUES); the first
\* queue becomes the default for receiving and sending
register_task_queue(entry, q) ==
    IF q \in Registered(entry) THEN entry
    ELSE IF Len(entry.queues) = 0
    THEN [queues |-> <<q>>, recv_queue_idx |-> 0, send_queue_idx |-> 0]
    ELSE [entry EXCEPT !.queues = Append(@, q)]

\* unregister_task_queue: remove the queue, shift the rest down, and reset
\* a default index that now lies past the end
unregister_task_queue(entry, q) ==
    IF q \notin Registered(entry) THEN entry
    ELSE LET rest == SelectSeq(entry.queues, LAMBDA x : x # q)
         IN  [queues |-> rest,
              recv_queue_idx |-> IF entry.recv_queue_idx >= Len(rest)
                                 THEN 0 ELSE entry.recv_queue_idx,
              send_queue_idx |-> IF entry.send_queue_idx >= Len(rest)
                                 THEN 0 ELSE entry.send_queue_idx]

\* find_task_queue(task_id, QUEUE_LOOKUP_RECEIVE): the default receive
\* queue of the entry, 0 (NULL) when the entry has no queue
find_task_queue(registry, task_id) ==
    IF Len(registry[task_id].queues) > 0
    THEN registry[task_id].queues[registry[task_id].recv_queue_idx + 1]
    ELSE 0

\* destroy_message_queue: message_queues[index] = message_queues[--num]
remove_queue(queues, q) ==
    LET index == CHOOSE i \in 1..Len(queues) : queues[i] = q
        last == Len(queues)
    IN  SubSeq([queues EXCEPT ![index] = queues[last]], 1, last - 1)

\* create_task_message_queue(name, RegQueueSize, owner_pid):
\* create_message_queue appends the new queue to message_queues[], then
\* register_task_queue(owner_pid, queue)
CreateTaskMessageQueue(t, owner_pid) ==
    /\ RegCanCall(t)
    /\ next_queue <= NumQueues
    /\ regcalls' = regcalls + 1
    /\ next_queue' = next_queue + 1
    /\ message_queues' = Append(message_queues, next_queue)
    /\ task_registry' = [task_registry EXCEPT ![owner_pid] =
                            register_task_queue(@, next_queue)]
    /\ UNCHANGED <<queue_msgs, next_message_id, result>>
    /\ RegFrame

\* unregister_task_queue(task_id, queue)
UnregisterTaskQueue(t, task_id, q) ==
    /\ RegCanCall(t)
    /\ q < next_queue
    /\ regcalls' = regcalls + 1
    /\ task_registry' = [task_registry EXCEPT ![task_id] =
                            unregister_task_queue(@, q)]
    /\ UNCHANGED <<message_queues, queue_msgs, next_queue, next_message_id,
                   result>>
    /\ RegFrame

\* destroy_message_queue(queue) on a live queue: take it out of
\* message_queues[] and free it; the task registry is not touched
DestroyMessageQueue(t, q) ==
    /\ RegCanCall(t)
    /\ q \in Registered([queues |-> message_queues])
    /\ regcalls' = regcalls + 1
    /\ message_queues' = remove_queue(message_queues, q)
    /\ queue_msgs' = [queue_msgs EXCEPT ![q] = <<>>]
    /\ UNCHANGED <<task_registry, next_queue, next_message_id, result>>
    /\ RegFrame

\* reply_to_message(original, reply, 0) for an original sent by
\* original_sender: the target is find_task_queue(original->header.sender,
\* QUEUE_LOOKUP_RECEIVE), or when that is NULL the first queue of
\* message_queues[]; -ENOENT when there is none; then send_message, which
\* stores the HIGH priority reply behind the replies already queued or
\* returns -EAGAIN on a full queue. A target that has been destroyed is
\* freed memory: the call may return anything and no queue is changed.
ReplyToMessage(t, original_sender) ==
    /\ RegCanCall(t)
    /\ regcalls' = regcalls + 1
    /\ LET found == find_task_queue(task_registry, original_sender)
           target_queue ==
               IF found # 0 THEN found
               ELSE IF Len(message_queues) > 0 THEN message_queues[1]
               ELSE 0
           reply == [sender |-> t, receiver |-> original_sender,
                     message_id |-> next_message_id + 1]
       IN  IF target_queue = 0
           THEN /\ result' = [result EXCEPT ![t] = RESULT_ENOENT]
                /\ next_message_id' = next_message_id + 1
                /\ UNCHANGED queue_msgs
           ELSE /\ next_message_id' = next_message_id + 2
                /\ IF target_queue \notin Registered([queues |-> message_queues])
                   THEN /\ \E r \in {RESULT_OK, RESULT_EAGAIN} :
                              result' = [result EXCEPT ![t] = r]
                        /\ UNCHANGED queue_msgs
                   ELSE IF Len(queue_msgs[target_queue]) < RegQueueSize
                   THEN /\ queue_msgs' = [queue_msgs EXCEPT
                                            ![target_queue] = Append(@, reply)]
                        /\ result' = [result EXCEPT ![t] = RESULT_OK]
                   ELSE /\ result' = [result EXCEPT ![t] = RESULT_EAGAIN]
                        /\ UNCHANGED queue_msgs
    /\ UNCHANGED <<message_queues, task_registry, next_queue>>
    /\ RegFrame

RegistryNext ==
    \E t \in Tasks :
       \/ \E owner_pid \in Tasks : CreateTaskMessageQueue(t, owner_pid)
       \/ \E task_id \in Tasks, q \in QueueIds :
             UnregisterTaskQueue(t, task_id, q)
       \/ \E q \in QueueIds : DestroyMessageQueue(t, q)
       \/ \E original_sender \in Tasks : ReplyToMessage(t, original_sender)

\* tasks creating, unregistering and destroying queues and replying
SpecRegistry == Init /\ [][RegistryNext]_vars

\* C32: reply_to_message delivers the reply only to a queue registered to
\* original.sender; if that task has no routable queue the call fails
\* with NoRoute and no queue is modified.
C32_ReplyOnlyToSendersQueue ==
    [][\A t \in Tasks, s \in Tasks :
          ReplyToMessage(t, s) =>
             LET changed == {q \in QueueIds : queue_msgs'[q] # queue_msgs[q]}
             IN  /\ changed \subseteq Registered(task_registry[s])
                 /\ Registered(task_registry[s]) = {} =>
                       result'[t] = RESULT_ENOENT]_vars

\* C37: find_task_queue never returns a destroyed queue: after
\* destroy_message_queue(q) no registry entry refers to q. Here: every
\* queue a registry entry holds is in message_queues[].
C37_RegistryHoldsLiveQueues ==
    \A task_id \in Tasks :
       Registered(task_registry[task_id])
          \subseteq Registered([queues |-> message_queues])


(* ---------------------------- destroy_event ---------------------------- *)

\* destroy_event(event) on a live event: wake_event_waiters(event, 0),
\* destroy its mutex, memset(event, 0); the reference count and the event
\* sets that hold the event are not looked at
DestroyPoolEvent(e) ==
    /\ \E t \in Tasks : CanCall(t)
    /\ setcalls < MaxSetCalls
    /\ event_type[e] = IPC_TYPE_EVENT
    /\ setcalls' = setcalls + 1
    /\ event_type' = [event_type EXCEPT ![e] = 0]
    /\ event_pool' = [event_pool EXCEPT ![e] =
                        [flags |-> {}, state |-> EVENT_STATE_NONSIGNALED,
                         ref_count |-> 0]]
    /\ UNCHANGED <<state, pc, event, event_set, tick_count, ecalls,
                   wait_result, woken, arrivals, set_events, max_events,
                   signaled_event>>
    /\ UNCHANGED <<mutexVars, semVars, queueVars, shmVars, poolVars,
                   mutex_type, regVars, vmVars>>

\* event_set_add, event_set_remove and event_signal return -1 without
\* effect on an event whose header.type is not IPC_TYPE_EVENT;
\* event_set_timedwait tests only the set
EventDestroyNext ==
    \/ \E e \in EventIds :
          event_type[e] = IPC_TYPE_EVENT /\ EventSetAdd(e)
    \/ \E e \in EventIds :
          event_type[e] = IPC_TYPE_EVENT /\ EventSetRemove(e)
    \/ \E e \in EventIds :
          event_type[e] = IPC_TYPE_EVENT /\ PoolSignal(e)
    \/ \E e \in EventIds : DestroyPoolEvent(e)
    \/ \E t \in Tasks : SetWaitScan(t)
    \/ \E t \in Tasks : EventSetWaitBlock(t)
    \/ \E t \in Tasks : SetWaitRescan(t)
    \/ TimerTick

\* an event set whose member events can be destroyed
SpecEventDestroy == InitEventSet /\ [][EventDestroyNext]_vars

\* C38: every event referenced by a live event set is itself live: an
\* event is not destroyed while some set still contains it.
C38_MembersAreLive ==
    set_events.live =>
       \A e \in Members(set_events) : event_type[e] = IPC_TYPE_EVENT


(* --------------- virtual addresses of shared mappings ------------------ *)

VmFrame ==
    UNCHANGED <<state, pc, mutexVars, semVars, queueVars, eventVars,
                setVars, shmVars, poolVars, mutex_type, regVars, event_type>>

\* the pages map_pages has installed for the task's mapping of the segment
MappedRange(s, t) ==
    IF virtual_addr[s][t] = NoAddr THEN {}
    ELSE virtual_addr[s][t] .. (virtual_addr[s][t] + real_size[s] - 1)

\* map_shared_memory(segment, permissions) with permissions the segment
\* allows: the existing address when the task has the segment mapped;
\* otherwise virtual_addr = next_shm_addr, next_shm_addr += real_size,
\* map_pages(virtual_addr, physical_addr, real_size), add_mapping
VmMap(t, s) ==
    /\ CanCall(t)
    /\ vmcalls < MaxVmCalls
    /\ vmcalls' = vmcalls + 1
    /\ IF virtual_addr[s][t] # NoAddr
       THEN UNCHANGED <<virtual_addr, next_shm_addr>>
       ELSE /\ virtual_addr' = [virtual_addr EXCEPT ![s][t] = next_shm_addr]
            /\ next_shm_addr' = next_shm_addr + real_size[s]
    /\ UNCHANGED real_size
    /\ VmFrame

\* unmap_shared_memory(segment): unmap_pages(virtual_addr, real_size) and
\* remove the task's mapping; next_shm_addr is not moved back
VmUnmap(t, s) ==
    /\ CanCall(t)
    /\ vmcalls < MaxVmCalls
    /\ virtual_addr[s][t] # NoAddr
    /\ vmcalls' = vmcalls + 1
    /\ virtual_addr' = [virtual_addr EXCEPT ![s][t] = NoAddr]
    /\ UNCHANGED <<real_size, next_shm_addr>>
    /\ VmFrame

\* resize_shared_memory(segment, new_size) to another number of pages: for
\* each mapping unmap_pages(virtual_addr, real_size) and
\* map_pages(virtual_addr, new_physical, new_real_size) at the same
\* virtual_addr; then real_size = new_real_size
VmResize(t, s, new_real_size) ==
    /\ CanCall(t)
    /\ vmcalls < MaxVmCalls
    /\ new_real_size # real_size[s]
    /\ vmcalls' = vmcalls + 1
    /\ real_size' = [real_size EXCEPT ![s] = new_real_size]
    /\ UNCHANGED <<virtual_addr, next_shm_addr>>
    /\ VmFrame

VmNext ==
    \E t \in Tasks, s \in SegIds :
       \/ VmMap(t, s)
       \/ VmUnmap(t, s)
       \/ \E new_real_size \in 1..MaxPages : VmResize(t, s, new_real_size)

\* tasks mapping, unmapping and resizing two segments
SpecVm == Init /\ [][VmNext]_vars

\* C39: within one task, the virtual address ranges of its mappings of
\* different shared-memory segments never overlap, for any sequence of
\* map, unmap and resize.
C39_MappingsDisjoint ==
    \A t \in Tasks : \A s1 \in SegIds, s2 \in SegIds :
       s1 # s2 => MappedRange(s1, t) \cap MappedRange(s2, t) = {}


(* ------------------------- priority counters --------------------------- *)

\* the number of queued messages of a priority
QueuedWithPriority(q, priority) ==
    Cardinality({k \in 0..(q.current_size - 1) :
                    q.messages[(q.head + k) % q.max_size].priority = priority})

\* C40: in every reachable state high_priority_count equals the number of
\* queued messages whose priority is High, urgent_priority_count equals
\* the number of queued messages whose priority is Urgent, and neither
\* counter drops below zero, for any sequence of sends (with or without
\* the Urgent flag), receives and task-exit cleanups.
C40_PriorityCountersMatch ==
    /\ queue.high_priority_count
          = QueuedWithPriority(queue, MESSAGE_PRIORITY_HIGH)
    /\ queue.urgent_priority_count
          = QueuedWithPriority(queue, MESSAGE_PRIORITY_URGENT)
    /\ queue.high_priority_count >= 0
    /\ queue.urgent_priority_count >= 0

=============================================================================
